---- MODULE Spec2Model ----
(***************************************************************************)
(* Model of the relay pipeline of lab-terraform: the consumer worker       *)
(* (app2-consumidora: PubSubSubscriber, MessageProcessor, DatabaseClient)  *)
(* and, in the second half of the module, the producer (app1-produtora:    *)
(* lifespan, POST /database-operation, PubSubPublisher).  The two          *)
(* processes are studied apart: in the specifications of one the other is  *)
(* not running.  The database client with callers of its own (SpecPool)    *)
(* and the lifecycle of the consumer process with its endpoints            *)
(* (SpecService) are studied apart as well; in the other specifications    *)
(* the subscriber and the processor exist, constructed with the arguments  *)
(* they need, and the pool has been created.                               *)
(*                                                                         *)
(* A delivery is one invocation of PubSubSubscriber._callback on a worker  *)
(* thread of the broker client.  Deliveries in flight are kept as a bag of *)
(* records, one record per running callback; the record carries the        *)
(* callback's position (pc), its local variables and a log of what was     *)
(* done on behalf of that delivery.                                        *)
(*                                                                         *)
(* Granularity and environment:                                            *)
(*  - a callback takes one step per stretch of code between the points     *)
(*    where another thread or coroutine can observe it: entry (line 36),   *)
(*    decode and submit (39-44), process_message up to its await of the    *)
(*    database, the completion of the statement, the ack/nack (46-51) and  *)
(*    the return; a counter increment is one step, except in SpecRace,     *)
(*    which separates its load from its store;                             *)
(*  - asyncio.get_event_loop() in the callback either returns the loop     *)
(*    that runs process_message or raises (a worker thread has no current  *)
(*    loop unless one was set for it): both outcomes are explored;         *)
(*  - the broker client delivers at most max_messages undecided messages   *)
(*    (flow control) and delivers nothing once the stream is cancelled;    *)
(*    streaming_pull_future.cancel() does not wait for running callbacks;  *)
(*  - a message is delivered once: redelivery after a nack is the          *)
(*    broker's business and is not followed.                               *)
(***************************************************************************)
EXTENDS Integers, Sequences, FiniteSets, Bags, TLC

(***************************************************************************)
(* Bounds of the model                                                     *)
(***************************************************************************)
\* copies of one payload the broker holds in the main specification
MaxCopies == 2
\* undecodable messages the broker holds beyond the flow-control window
\* (SpecFlow)
MaxExtra == 1
\* valid messages the broker holds besides them (SpecFlow)
MaxFlowValid == 2
\* messages the broker holds in the fair specification (SpecLive)
MaxLive == 3

(***************************************************************************)
(* JSON values.  Every value is a record of the same shape so that values  *)
(* of different JSON types can be compared.  A string is a sequence of     *)
(* characters (a string that is only ever compared, never case-mapped, is  *)
(* kept as one chunk); a mapping is a sequence of key/value items in       *)
(* insertion order (Python dicts keep insertion order).                    *)
(***************************************************************************)
JStr(cs) == [kind |-> "str", chars |-> cs, num |-> 0, items |-> <<>>]

JInt(n) == [kind |-> "int", chars |-> <<>>, num |-> n, items |-> <<>>]

JNull == [kind |-> "null", chars |-> <<>>, num |-> 0, items |-> <<>>]

JDict(its) == [kind |-> "dict", chars |-> <<>>, num |-> 0, items |-> its]

\* marks a key that is not in the mapping (a choice of the input generator,
\* never a value stored in an envelope)
Missing == [kind |-> "missing", chars |-> <<>>, num |-> 0, items |-> <<>>]

Item(k, v) == [k |-> k, v |-> v]

\* Python truthiness: bool(x)
Truthy(v) ==
    CASE v.kind = "null" -> FALSE
      [] v.kind = "str"  -> v.chars # <<>>
      [] v.kind = "int"  -> v.num # 0
      [] v.kind = "dict" -> v.items # <<>>
      [] OTHER -> FALSE

(***************************************************************************)
(* str.upper() on the letters the model uses                               *)
(***************************************************************************)
LowerLetters == <<"a","c","d","e","i","l","n","p","r","s","t","u">>

UpperLetters == <<"A","C","D","E","I","L","N","P","R","S","T","U">>

UpperChar(c) ==
    IF \E i \in DOMAIN LowerLetters : LowerLetters[i] = c
    THEN UpperLetters[CHOOSE i \in DOMAIN LowerLetters : LowerLetters[i] = c]
    ELSE c

\* the operation compared as sent, without .upper()
Upper_Identity(cs) == cs

Upper(cs) == [i \in DOMAIN cs |-> UpperChar(cs[i])]

INSERT == <<"I","N","S","E","R","T">>

UPDATE == <<"U","P","D","A","T","E">>

DELETE == <<"D","E","L","E","T","E">>

valid_operations == {INSERT, UPDATE, DELETE}

database_operation == JStr(<<"database_operation">>)

(***************************************************************************)
(* Envelopes: a mapping from field names to JSON values                    *)
(***************************************************************************)
Fields == {"operation", "table", "event_type", "data", "where_clause"}

\* the table is not asked for
required_fields_NoTable == <<"operation", "event_type">>

required_fields == <<"operation", "table", "event_type">>

\* dict.get(key, default)
Get(m, f, default) == IF f \in DOMAIN m THEN m[f] ELSE default

\* dict.get(key): None when the key is absent
GetOrNone(m, f) == Get(m, f, JNull)

(***************************************************************************)
(* MessageProcessor._validate_message (main.py 121-167).                   *)
(* "true"/"false" are the returned booleans; "raise" is the AttributeError *)
(* of .upper() on an operation that is not a string.                       *)
(***************************************************************************)
\* lines 134-137: every required field is a key of the message
RequiredPresent(m) == \A i \in DOMAIN required_fields : required_fields[i] \in DOMAIN m

\* lines 140-142
EventTypeOk(m) == GetOrNone(m, "event_type") = database_operation

\* INSERT accepted without looking at data
InsertOk_NoCheck(m) == TRUE

\* lines 152-155
InsertOk(m) == Truthy(GetOrNone(m, "data"))

\* UPDATE accepted on data alone
UpdateOk_DataOnly(m) == Truthy(GetOrNone(m, "data"))

\* lines 157-160
UpdateOk(m) == ~(~Truthy(GetOrNone(m, "data")) \/ ~Truthy(GetOrNone(m, "where_clause")))

\* DELETE accepted without looking at where_clause
DeleteOk_NoCheck(m) == TRUE

\* lines 162-165
DeleteOk(m) == Truthy(GetOrNone(m, "where_clause"))

_validate_message(m) ==
    IF ~RequiredPresent(m) THEN "false"
    ELSE IF ~EventTypeOk(m) THEN "false"
    ELSE IF Get(m, "operation", JStr(<<>>)).kind # "str" THEN "raise"
    ELSE LET operation == Upper(Get(m, "operation", JStr(<<>>)).chars) IN
         IF operation \notin valid_operations THEN "false"
         ELSE IF operation = INSERT /\ ~InsertOk(m) THEN "false"
         ELSE IF operation = UPDATE /\ ~UpdateOk(m) THEN "false"
         ELSE IF operation = DELETE /\ ~DeleteOk(m) THEN "false"
         ELSE "true"

(***************************************************************************)
(* DatabaseClient statement building (database_client.py 39-60).  A        *)
(* statement is the query text in structured form: the verb, the table,    *)
(* the SET/column list and the WHERE list, each entry with the number of   *)
(* its positional placeholder, and the bound argument list.                *)
(***************************************************************************)
Keys(d) == [i \in DOMAIN d.items |-> d.items[i].k]

Values(d) == [i \in DOMAIN d.items |-> d.items[i].v]

Placed(ks, offset) == [i \in DOMAIN ks |-> [k |-> ks[i], ph |-> i + offset]]

insert(table, data) ==
    [verb |-> "INSERT", table |-> table,
     set |-> Placed(Keys(data), 0), where |-> <<>>,
     args |-> Values(data)]

\* the placeholders of the WHERE clause start again at 1
update_WhereFromOne(table, data, where) ==
    [verb |-> "UPDATE", table |-> table,
     set |-> Placed(Keys(data), 0),
     where |-> Placed(Keys(where), 0),
     args |-> Values(data) \o Values(where)]

update(table, data, where) ==
    [verb |-> "UPDATE", table |-> table,
     set |-> Placed(Keys(data), 0),
     where |-> Placed(Keys(where), Len(data.items)),
     args |-> Values(data) \o Values(where)]

delete(table, where) ==
    [verb |-> "DELETE", table |-> table,
     set |-> <<>>, where |-> Placed(Keys(where), 0),
     args |-> Values(where)]

\* .keys()/.values() exist on mappings only: any other value makes the
\* method raise AttributeError before a connection is acquired
BuildRaises(operation, data, where) ==
    CASE operation = INSERT -> data.kind # "dict"
      [] operation = UPDATE -> data.kind # "dict" \/ where.kind # "dict"
      [] operation = DELETE -> where.kind # "dict"
      [] OTHER -> FALSE

\* every kind of operation is dispatched to insert
Method_AlwaysInsert(operation) ==
    CASE operation \in {INSERT, UPDATE, DELETE} -> "insert"
      [] OTHER -> "none"

\* the executor method _execute_database_operation dispatches to
\* (main.py 191-202); "none" is the else branch
Method(operation) ==
    CASE operation = INSERT -> "insert"
      [] operation = UPDATE -> "update"
      [] operation = DELETE -> "delete"
      [] OTHER -> "none"

Statement(operation, table, data, where) ==
    CASE operation = INSERT -> insert(table, data)
      [] operation = UPDATE -> update(table, data, where)
      [] OTHER -> delete(table, where)

(***************************************************************************)
(* Message payloads.  enc says what the bytes are: "json" bytes decode as  *)
(* UTF-8 and parse as JSON; "bad_utf8" bytes make bytes.decode raise and   *)
(* "bad_json" text makes json.loads raise.  A JSON document is a mapping   *)
(* (isdict, with its fields in env) or some other JSON value.              *)
(***************************************************************************)
OperationChoices ==
    { Missing, JNull, JInt(5), JStr(<<>>),
      JStr(<<"i","n","s","e","r","t">>), JStr(INSERT),
      JStr(<<"U","p","d","a","t","e">>), JStr(UPDATE),
      JStr(<<"d","e","L","e","T","e">>), JStr(DELETE),
      JStr(<<"s","e","l","e","c","t">>) }

TableChoices == { Missing, JStr(<<"users">>), JStr(<<>>) }

EventTypeChoices == { Missing, database_operation, JStr(<<"other">>) }

DataChoices ==
    { Missing, JNull, JDict(<<>>), JStr(<<"x">>),
      JDict(<<Item("age", JInt(31))>>),
      JDict(<<Item("name", JStr(<<"Ana">>)), Item("age", JInt(30))>>) }

WhereChoices ==
    { Missing, JNull, JDict(<<>>), JStr(<<"x">>),
      JDict(<<Item("name", JStr(<<"Ana">>))>>) }

Choices ==
    [operation : OperationChoices, table : TableChoices,
     event_type : EventTypeChoices, data : DataChoices,
     where_clause : WhereChoices]

\* the mapping that holds exactly the chosen fields
MkEnv(c) == [f \in {g \in Fields : c[g] # Missing} |-> c[f]]

NoEnv == [f \in {} |-> JNull]

JsonDict(env) == [enc |-> "json", isdict |-> TRUE, env |-> env]

JsonOther == [enc |-> "json", isdict |-> FALSE, env |-> NoEnv]

BadJson == [enc |-> "bad_json", isdict |-> FALSE, env |-> NoEnv]

BadUtf8 == [enc |-> "bad_utf8", isdict |-> FALSE, env |-> NoEnv]

Payloads == { JsonDict(MkEnv(c)) : c \in Choices } \cup { JsonOther, BadJson, BadUtf8 }

\* json.loads(message.data.decode("utf-8")) (pubsub_subscriber.py 40):
\* TRUE when it raises
DecodeRaises(p) == p.enc # "json"

(***************************************************************************)
(* State                                                                   *)
(***************************************************************************)
VARIABLES
    backlog,    \* bag of payloads the broker holds for the subscription
    inflight,   \* bag of running _callback invocations
    streaming_pull_future,  \* "None" | "active" | "cancelled"
    is_consuming,           \* PubSubSubscriber.is_consuming
    sub_metrics,            \* PubSubSubscriber.metrics
    metrics,                \* the processor's global metrics (main.py 41-48)
    ledger      \* the broker client's count of callbacks entered, of the
                \* message.ack() and message.nack() requests it was sent, and
                \* whether deliveries were outstanding when the stream was
                \* cancelled

\* the consumer's database client and the lifecycle of its process
VARIABLES
    pool,       \* DatabaseClient.pool: whether it was created, the connections
                \* checked out of it, and the calls of insert, update and
                \* delete made on the client directly, by their stage
    service     \* the globals running, subscriber and processor
                \* (main.py 212-214) and the position of start_consumer

\* the producer process (src/app1-produtora)
VARIABLES
    cloud,      \* what the producer's environment holds: the credentials
                \* that can be found and the state of the topic
    publisher,  \* app.state.pubsub_publisher: "None" | "ready" | "failed"
    app,        \* the producer application: "starting" | "serving" | "aborted"
    producer_metrics,   \* the producer's global metrics (main.py 68-73)
    requests,   \* bag of calls of POST /database-operation, in progress or
                \* answered
    topic_msgs, \* bag of the messages handed to publisher_client.publish
    batch,      \* the call of publish_batch
    wire        \* one envelope on its way from publish_message to _callback

consumer == <<backlog, inflight, streaming_pull_future, is_consuming, sub_metrics,
              metrics, ledger, pool, service>>

producer == <<cloud, publisher, app, producer_metrics, requests, topic_msgs, batch,
              wire>>

vars == <<backlog, inflight, streaming_pull_future, is_consuming, sub_metrics,
          metrics, ledger, pool, service, producer>>

\* the producer process has not been started
ProducerAbsent ==
    /\ cloud = [creds |-> "adc", topic |-> "exists"]
    /\ publisher = "None"
    /\ app = "starting"
    /\ producer_metrics = [total_requests |-> 0, successful_publishes |-> 0,
                           failed_publishes |-> 0]
    /\ requests = EmptyBag
    /\ topic_msgs = EmptyBag
    /\ batch = [pc |-> "idle", messages |-> <<>>, outcomes |-> <<>>,
                issued |-> 0, result |-> <<>>]
    /\ wire = [stage |-> "idle", envelope |-> JNull, bytes |-> <<>>,
               received |-> [ok |-> FALSE, v |-> JNull]]

\* FlowControl(max_messages=10), pubsub_subscriber.py 58
max_messages == 10

\* asyncpg.create_pool(..., max_size=10), database_client.py 35
max_size == 10

NoCalls == [waiting |-> 0, executing |-> 0, returned |-> 0, raised |-> 0,
            cancelled |-> 0]

\* DatabaseClient() (database_client.py 19-25): no pool yet
PoolNone == [created |-> FALSE, checked_out |-> 0, calls |-> NoCalls]

\* the pool that connect() created (27-37), all its connections free
PoolCreated == [created |-> TRUE, checked_out |-> 0, calls |-> NoCalls]

\* "async with self.pool.acquire() as conn" is entered
Acquired(pl) == [pl EXCEPT !.checked_out = @ + 1]

\* the connection acquired while building a statement is never given back
Released_Never(pl, n) == pl

\* the block of "async with self.pool.acquire() as conn" is left, by its end
\* or by an exception, n times
Released(pl, n) == [pl EXCEPT !.checked_out = @ - n]

\* main.py 212-214 before start_consumer is called
ServiceIdle ==
    [pc |-> "idle", running |-> FALSE, subscriber |-> "None", processor |-> "None",
     stopped |-> FALSE, probes |-> <<>>]

Put(bag, e) == bag (+) SetToBag({e})

Take(bag, e) == bag (-) SetToBag({e})

\* a callback that has just been entered for payload p.  calls lists the
\* executor methods invoked for the delivery, stmts the statements handed to
\* the database, and db says how the invoked method ended: "ok" when it
\* returned, "raised" when it raised.
NewCallback(p) ==
    [payload |-> p, pc |-> "cb_try", result |-> "none",
     calls |-> <<>>, stmts |-> <<>>, db |-> "none", decision |-> "none"]

\* deliveries the callback has not yet acked or nacked
Undecided == { r \in BagToSet(inflight) : r.decision = "none" }

Outstanding == BagCardinality([r \in Undecided |-> inflight[r]])

Bump(m, k) == [m EXCEPT ![k] = @ + 1]

(***************************************************************************)
(* MessageProcessor.process_message from its entry to its first await or   *)
(* to its return (main.py 81-103, 116-119) together with the part of       *)
(* _execute_database_operation that runs before the statement is sent      *)
(* (main.py 188-198, 207-209).                                             *)
(*   "except"  : an exception reached the handler at line 116              *)
(*   "invalid" : _validate_message returned False                          *)
(*   "noexec"  : the dispatcher's else branch (line 200-202)               *)
(*   "dbraise" : the executor method raised while building the statement   *)
(*   "execute" : the statement was built and is being executed             *)
(***************************************************************************)
ProcessPrefix(p) ==
    IF ~p.isdict THEN [out |-> "except", method |-> "none"]
    ELSE LET v == _validate_message(p.env) IN
         IF v = "raise" THEN [out |-> "except", method |-> "none"]
         ELSE IF v = "false" THEN [out |-> "invalid", method |-> "none"]
         ELSE LET operation == Upper(Get(p.env, "operation", JStr(<<>>)).chars)
                  data == Get(p.env, "data", JDict(<<>>))
                  where == Get(p.env, "where_clause", JDict(<<>>))
              IN IF Method(operation) = "none"
                 THEN [out |-> "noexec", method |-> "none"]
                 ELSE IF BuildRaises(operation, data, where)
                 THEN [out |-> "dbraise", method |-> Method(operation)]
                 ELSE [out |-> "execute", method |-> Method(operation)]

\* the statement process_message has the executor run for payload p
StatementOf(p) ==
    Statement(Upper(Get(p.env, "operation", JStr(<<>>)).chars),
              Get(p.env, "table", JStr(<<>>)),
              Get(p.env, "data", JDict(<<>>)),
              Get(p.env, "where_clause", JDict(<<>>)))

(***************************************************************************)
(* Actions                                                                 *)
(***************************************************************************)
\* PubSubSubscriber.start_consuming (pubsub_subscriber.py 57-65)
start_consuming ==
    /\ streaming_pull_future = "None"
    /\ streaming_pull_future' = "active"
    /\ is_consuming' = TRUE
    /\ UNCHANGED <<backlog, inflight, sub_metrics, metrics, ledger>>
    /\ UNCHANGED <<pool, service>>
    /\ UNCHANGED producer

\* delivery without the flow-control window
Deliver_NoFlowControl(p) ==
    /\ streaming_pull_future = "active"
    /\ BagIn(p, backlog)
    /\ backlog' = Take(backlog, p)
    /\ inflight' = Put(inflight, NewCallback(p))
    /\ sub_metrics' = Bump(sub_metrics, "messages_received")
    /\ ledger' = Bump(ledger, "delivered")
    /\ UNCHANGED <<streaming_pull_future, is_consuming, metrics>>
    /\ UNCHANGED <<pool, service>>
    /\ UNCHANGED producer

\* The broker client hands a message to _callback on a worker thread; flow
\* control holds messages back while max_messages are outstanding.  The
\* callback counts the message (pubsub_subscriber.py 36).
Deliver(p) ==
    /\ streaming_pull_future = "active"
    /\ Outstanding < max_messages
    /\ BagIn(p, backlog)
    /\ backlog' = Take(backlog, p)
    /\ inflight' = Put(inflight, NewCallback(p))
    /\ sub_metrics' = Bump(sub_metrics, "messages_received")
    /\ ledger' = Bump(ledger, "delivered")
    /\ UNCHANGED <<streaming_pull_future, is_consuming, metrics>>
    /\ UNCHANGED <<pool, service>>
    /\ UNCHANGED producer

\* the exception handler acks instead of nacking
CallbackTry_AckOnError(r, loop) ==
    /\ BagIn(r, inflight)
    /\ r.pc = "cb_try"
    /\ IF DecodeRaises(r.payload) \/ ~loop
       THEN /\ inflight' = Put(Take(inflight, r),
                               [r EXCEPT !.pc = "cb_exit", !.decision = "ack"])
            /\ ledger' = Bump(ledger, "acks")
       ELSE /\ inflight' = Put(Take(inflight, r), [r EXCEPT !.pc = "pm_pending"])
            /\ UNCHANGED ledger
    /\ UNCHANGED <<backlog, streaming_pull_future, is_consuming, sub_metrics, metrics>>
    /\ UNCHANGED <<pool, service>>
    /\ UNCHANGED producer

\* _callback lines 39-44 and 53-55: decode the payload, look up the event
\* loop and submit process_message to it; any exception is caught and the
\* message nacked.  asyncio.get_event_loop() on a worker thread either
\* returns a loop set for that thread or raises RuntimeError.
CallbackTry(r, loop) ==
    /\ BagIn(r, inflight)
    /\ r.pc = "cb_try"
    /\ IF DecodeRaises(r.payload) \/ ~loop
       THEN /\ inflight' = Put(Take(inflight, r),
                               [r EXCEPT !.pc = "cb_exit", !.decision = "nack"])
            /\ ledger' = Bump(ledger, "nacks")
       ELSE /\ inflight' = Put(Take(inflight, r), [r EXCEPT !.pc = "pm_pending"])
            /\ UNCHANGED ledger
    /\ UNCHANGED <<backlog, streaming_pull_future, is_consuming, sub_metrics, metrics>>
    /\ UNCHANGED <<pool, service>>
    /\ UNCHANGED producer

\* the handler of unexpected exceptions returns False without counting
ProcessStart_ExceptUncounted(r) ==
    /\ BagIn(r, inflight)
    /\ r.pc = "pm_pending"
    /\ LET pre == ProcessPrefix(r.payload)
           m1 == Bump(metrics, "messages_received")
       IN CASE pre.out = "except" ->
                 /\ metrics' = m1
                 /\ inflight' = Put(Take(inflight, r),
                        [r EXCEPT !.pc = "pm_done", !.result = "false"])
                 /\ UNCHANGED pool
            [] pre.out = "invalid" ->
                 /\ metrics' = Bump(m1, "messages_failed")
                 /\ inflight' = Put(Take(inflight, r),
                        [r EXCEPT !.pc = "pm_done", !.result = "false"])
                 /\ UNCHANGED pool
            [] pre.out = "noexec" ->
                 /\ metrics' = Bump(Bump(m1, "messages_failed"),
                                    "database_operations_failed")
                 /\ inflight' = Put(Take(inflight, r),
                        [r EXCEPT !.pc = "pm_done", !.result = "false"])
                 /\ UNCHANGED pool
            [] pre.out = "dbraise" ->
                 /\ metrics' = Bump(Bump(m1, "messages_failed"),
                                    "database_operations_failed")
                 /\ inflight' = Put(Take(inflight, r),
                        [r EXCEPT !.pc = "pm_done", !.result = "false",
                                  !.db = "raised",
                                  !.calls = Append(@, pre.method)])
                 /\ UNCHANGED pool
            [] OTHER ->
                 /\ pool.checked_out < max_size
                 /\ pool' = Acquired(pool)
                 /\ metrics' = m1
                 /\ inflight' = Put(Take(inflight, r),
                        [r EXCEPT !.pc = "db_exec",
                                  !.calls = Append(@, pre.method),
                                  !.stmts = Append(@, StatementOf(r.payload))])
    /\ UNCHANGED <<backlog, streaming_pull_future, is_consuming, sub_metrics, ledger>>
    /\ UNCHANGED service
    /\ UNCHANGED producer

\* process_message runs on the event loop up to its first await or its
\* return.  The executor method acquires a connection before it awaits the
\* statement; with every connection checked out it waits for one.
ProcessStart(r) ==
    /\ BagIn(r, inflight)
    /\ r.pc = "pm_pending"
    /\ LET pre == ProcessPrefix(r.payload)
           m1 == Bump(metrics, "messages_received")
       IN CASE pre.out \in {"except", "invalid"} ->
                 /\ metrics' = Bump(m1, "messages_failed")
                 /\ inflight' = Put(Take(inflight, r),
                        [r EXCEPT !.pc = "pm_done", !.result = "false"])
                 /\ UNCHANGED pool
            [] pre.out = "noexec" ->
                 /\ metrics' = Bump(Bump(m1, "messages_failed"),
                                    "database_operations_failed")
                 /\ inflight' = Put(Take(inflight, r),
                        [r EXCEPT !.pc = "pm_done", !.result = "false"])
                 /\ UNCHANGED pool
            [] pre.out = "dbraise" ->
                 /\ metrics' = Bump(Bump(m1, "messages_failed"),
                                    "database_operations_failed")
                 /\ inflight' = Put(Take(inflight, r),
                        [r EXCEPT !.pc = "pm_done", !.result = "false",
                                  !.db = "raised",
                                  !.calls = Append(@, pre.method)])
                 /\ UNCHANGED pool
            [] OTHER ->
                 /\ pool.checked_out < max_size
                 /\ pool' = Acquired(pool)
                 /\ metrics' = m1
                 /\ inflight' = Put(Take(inflight, r),
                        [r EXCEPT !.pc = "db_exec",
                                  !.calls = Append(@, pre.method),
                                  !.stmts = Append(@, StatementOf(r.payload))])
    /\ UNCHANGED <<backlog, streaming_pull_future, is_consuming, sub_metrics, ledger>>
    /\ UNCHANGED service
    /\ UNCHANGED producer

\* a statement that fails takes another statement in execution down with it
DbComplete_FailsOther(r, ok) ==
    /\ BagIn(r, inflight)
    /\ r.pc = "db_exec"
    /\ IF ok
       THEN /\ metrics' = Bump(Bump(metrics, "messages_processed"),
                               "database_operations_success")
            /\ inflight' = Put(Take(inflight, r),
                               [r EXCEPT !.pc = "pm_done", !.result = "true",
                                         !.db = "ok"])
       ELSE /\ metrics' = Bump(Bump(metrics, "messages_failed"),
                               "database_operations_failed")
            /\ LET rest == Take(inflight, r)
                   others == { q \in BagToSet(rest) : q.pc = "db_exec" }
                   failed(q) == [q EXCEPT !.pc = "pm_done", !.result = "false",
                                          !.db = "raised"]
               IN IF others = {}
                  THEN inflight' = Put(rest, failed(r))
                  ELSE LET o == CHOOSE q \in others : TRUE
                       IN inflight' = Put(Put(Take(rest, o), failed(o)), failed(r))
    /\ UNCHANGED <<backlog, streaming_pull_future, is_consuming, sub_metrics, ledger>>
    /\ pool' = Released(pool, IF ~ok /\ \E q \in BagToSet(Take(inflight, r)) :
                                             q.pc = "db_exec"
                              THEN 2 ELSE 1)
    /\ UNCHANGED service
    /\ UNCHANGED producer

\* a failed statement makes the subscriber stop consuming
DbComplete_StopsOnFailure(r, ok) ==
    /\ BagIn(r, inflight)
    /\ r.pc = "db_exec"
    /\ IF ok
       THEN /\ metrics' = Bump(Bump(metrics, "messages_processed"),
                               "database_operations_success")
            /\ inflight' = Put(Take(inflight, r),
                               [r EXCEPT !.pc = "pm_done", !.result = "true",
                                         !.db = "ok"])
            /\ UNCHANGED is_consuming
       ELSE /\ metrics' = Bump(Bump(metrics, "messages_failed"),
                               "database_operations_failed")
            /\ inflight' = Put(Take(inflight, r),
                               [r EXCEPT !.pc = "pm_done", !.result = "false",
                                         !.db = "raised"])
            /\ is_consuming' = FALSE
    /\ UNCHANGED <<backlog, streaming_pull_future, sub_metrics, ledger>>
    /\ pool' = Released(pool, 1)
    /\ UNCHANGED service
    /\ UNCHANGED producer

\* conn.execute finishes: it returns (ok) or raises; the block of the
\* "async with" is left and gives the connection back, and the executor
\* method and process_message run to their return (database_client.py
\* 43-45, main.py 204-209 and 105-114)
DbComplete(r, ok) ==
    /\ BagIn(r, inflight)
    /\ r.pc = "db_exec"
    /\ IF ok
       THEN /\ metrics' = Bump(Bump(metrics, "messages_processed"),
                               "database_operations_success")
            /\ inflight' = Put(Take(inflight, r),
                               [r EXCEPT !.pc = "pm_done", !.result = "true",
                                         !.db = "ok"])
       ELSE /\ metrics' = Bump(Bump(metrics, "messages_failed"),
                               "database_operations_failed")
            /\ inflight' = Put(Take(inflight, r),
                               [r EXCEPT !.pc = "pm_done", !.result = "false",
                                         !.db = "raised"])
    /\ UNCHANGED <<backlog, streaming_pull_future, is_consuming, sub_metrics, ledger>>
    /\ pool' = Released(pool, 1)
    /\ UNCHANGED service
    /\ UNCHANGED producer

\* the callback acks whatever process_message returned
CallbackResume_AlwaysAck(r) ==
    /\ BagIn(r, inflight)
    /\ r.pc = "pm_done"
    /\ inflight' = Put(Take(inflight, r),
                       [r EXCEPT !.pc = "cb_exit", !.decision = "ack"])
    /\ sub_metrics' = Bump(sub_metrics, "messages_acked")
    /\ ledger' = Bump(ledger, "acks")
    /\ UNCHANGED <<backlog, streaming_pull_future, is_consuming, metrics>>
    /\ UNCHANGED <<pool, service>>
    /\ UNCHANGED producer

\* the callback returns without a decision once the subscriber was stopped
CallbackResume_DropWhenStopped(r) ==
    /\ BagIn(r, inflight)
    /\ r.pc = "pm_done"
    /\ IF ~is_consuming
       THEN /\ inflight' = Put(Take(inflight, r), [r EXCEPT !.pc = "cb_exit"])
            /\ UNCHANGED <<sub_metrics, ledger>>
       ELSE IF r.result = "true"
       THEN /\ inflight' = Put(Take(inflight, r),
                               [r EXCEPT !.pc = "cb_exit", !.decision = "ack"])
            /\ sub_metrics' = Bump(sub_metrics, "messages_acked")
            /\ ledger' = Bump(ledger, "acks")
       ELSE /\ inflight' = Put(Take(inflight, r),
                               [r EXCEPT !.pc = "cb_exit", !.decision = "nack"])
            /\ sub_metrics' = Bump(sub_metrics, "messages_nacked")
            /\ ledger' = Bump(ledger, "nacks")
    /\ UNCHANGED <<backlog, streaming_pull_future, is_consuming, metrics>>
    /\ UNCHANGED <<pool, service>>
    /\ UNCHANGED producer

\* the callback does not wait for process_message: it acks while the
\* statement is still being executed
CallbackResume_AckEarly(r) ==
    /\ BagIn(r, inflight)
    /\ r.pc \in {"db_exec", "pm_done"}
    /\ IF r.pc = "db_exec" \/ r.result = "true"
       THEN /\ inflight' = Put(Take(inflight, r),
                               [r EXCEPT !.pc = "cb_exit", !.decision = "ack"])
            /\ sub_metrics' = Bump(sub_metrics, "messages_acked")
            /\ ledger' = Bump(ledger, "acks")
       ELSE /\ inflight' = Put(Take(inflight, r),
                               [r EXCEPT !.pc = "cb_exit", !.decision = "nack"])
            /\ sub_metrics' = Bump(sub_metrics, "messages_nacked")
            /\ ledger' = Bump(ledger, "nacks")
    /\ UNCHANGED <<backlog, streaming_pull_future, is_consuming, metrics>>
    /\ UNCHANGED <<pool, service>>
    /\ UNCHANGED producer

\* _callback lines 46-51: .result() returned, ack or nack and count it
CallbackResume(r) ==
    /\ BagIn(r, inflight)
    /\ r.pc = "pm_done"
    /\ IF r.result = "true"
       THEN /\ inflight' = Put(Take(inflight, r),
                               [r EXCEPT !.pc = "cb_exit", !.decision = "ack"])
            /\ sub_metrics' = Bump(sub_metrics, "messages_acked")
            /\ ledger' = Bump(ledger, "acks")
       ELSE /\ inflight' = Put(Take(inflight, r),
                               [r EXCEPT !.pc = "cb_exit", !.decision = "nack"])
            /\ sub_metrics' = Bump(sub_metrics, "messages_nacked")
            /\ ledger' = Bump(ledger, "nacks")
    /\ UNCHANGED <<backlog, streaming_pull_future, is_consuming, metrics>>
    /\ UNCHANGED <<pool, service>>
    /\ UNCHANGED producer

\* _callback returns to the broker client
CallbackReturn(r) ==
    /\ BagIn(r, inflight)
    /\ r.pc = "cb_exit"
    /\ inflight' = Take(inflight, r)
    /\ UNCHANGED <<backlog, streaming_pull_future, is_consuming, sub_metrics, metrics,
                   ledger>>
    /\ UNCHANGED <<pool, service>>
    /\ UNCHANGED producer

\* PubSubSubscriber.stop_consuming (pubsub_subscriber.py 67-71), as called
\* by stop_consumer (main.py 253-254).  It has no await: it cancels, clears
\* the flag and returns in one step of the event loop.  Called before
\* start_consuming or a second time it changes nothing.
stop_consuming ==
    /\ streaming_pull_future = "active"
    /\ streaming_pull_future' = "cancelled"
    /\ is_consuming' = FALSE
    /\ ledger' = [ledger EXCEPT !.busy_at_stop = (Outstanding > 0)]
    /\ UNCHANGED <<backlog, inflight, sub_metrics, metrics>>
    /\ UNCHANGED <<pool, service>>
    /\ UNCHANGED producer

Next ==
    \/ start_consuming
    \/ \E p \in BagToSet(backlog) : Deliver(p)
    \/ \E r \in BagToSet(inflight), loop \in BOOLEAN : CallbackTry(r, loop)
    \/ \E r \in BagToSet(inflight) : ProcessStart(r)
    \/ \E r \in BagToSet(inflight), ok \in BOOLEAN : DbComplete(r, ok)
    \/ \E r \in BagToSet(inflight) : CallbackResume(r)
    \/ \E r \in BagToSet(inflight) : CallbackReturn(r)
    \/ stop_consuming

\* the subscriber and the processor right after construction
InitConsumer ==
    /\ inflight = EmptyBag
    /\ streaming_pull_future = "None"
    /\ is_consuming = FALSE
    /\ sub_metrics = [messages_received |-> 0, messages_acked |-> 0,
                      messages_nacked |-> 0]
    /\ metrics = [messages_received |-> 0, messages_processed |-> 0,
                  messages_failed |-> 0, database_operations_success |-> 0,
                  database_operations_failed |-> 0]
    /\ ledger = [delivered |-> 0, acks |-> 0, nacks |-> 0, busy_at_stop |-> FALSE]
    /\ pool = PoolCreated
    /\ service = ServiceIdle

Copies(p, n) == [q \in {p} |-> n]

\* the broker holds up to MaxCopies messages with the same payload
Init ==
    /\ ProducerAbsent
    /\ InitConsumer
    /\ \E p \in Payloads, n \in 1..MaxCopies : backlog = Copies(p, n)

Spec == Init /\ [][Next]_vars

(***************************************************************************)
(* The consumer under load: the broker holds more messages than the flow   *)
(* control window: MaxFlowValid valid INSERT envelopes, whose callbacks go *)
(* through every stage of processing, and max_messages + MaxExtra messages *)
(* whose payload does not parse.                                           *)
(***************************************************************************)
FlowPayload ==
    JsonDict(MkEnv([operation |-> JStr(<<"i","n","s","e","r","t">>),
                    table |-> JStr(<<"users">>),
                    event_type |-> database_operation,
                    data |-> JDict(<<Item("name", JStr(<<"Ana">>)),
                                     Item("age", JInt(30))>>),
                    where_clause |-> Missing]))

InitFlow ==
    /\ ProducerAbsent
    /\ InitConsumer
    /\ backlog = Copies(FlowPayload, MaxFlowValid)
                 (+) Copies(BadJson, max_messages + MaxExtra)

SpecFlow == InitFlow /\ [][Next]_vars

(***************************************************************************)
(* The consumer with fair scheduling: a callback that can take a step      *)
(* eventually takes it (worker threads and the event loop keep running,    *)
(* the database answers every statement).  Nothing forces the broker to    *)
(* deliver, nor the operator to start or stop the subscriber.              *)
(***************************************************************************)
InvalidInsert ==
    JsonDict(MkEnv([operation |-> JStr(INSERT), table |-> JStr(<<"users">>),
                    event_type |-> database_operation,
                    data |-> JDict(<<>>), where_clause |-> Missing]))

LivePayloads == { FlowPayload, InvalidInsert, BadJson }

LiveBags ==
    { b \in { [p \in {q \in LivePayloads : f[q] > 0} |-> f[p]] :
                f \in [LivePayloads -> 0..MaxLive] } :
        BagCardinality(b) = MaxLive }

InitLive ==
    /\ ProducerAbsent
    /\ InitConsumer
    /\ backlog \in LiveBags

Fairness ==
    /\ WF_vars(\E r \in BagToSet(inflight), loop \in BOOLEAN : CallbackTry(r, loop))
    /\ WF_vars(\E r \in BagToSet(inflight) : ProcessStart(r))
    /\ WF_vars(\E r \in BagToSet(inflight), ok \in BOOLEAN : DbComplete(r, ok))
    /\ WF_vars(\E r \in BagToSet(inflight) : CallbackResume(r))
    /\ WF_vars(\E r \in BagToSet(inflight) : CallbackReturn(r))

SpecLive == InitLive /\ [][Next]_vars /\ Fairness

(***************************************************************************)
(* Vocabulary of the properties                                            *)
(***************************************************************************)
Callbacks == BagToSet(inflight)

Has(r, f) == r.payload.isdict /\ f \in DOMAIN r.payload.env

\* cs spells the operation kind op in some letter case
Spelling(cs, op) ==
    /\ Len(cs) = Len(op)
    /\ \A i \in DOMAIN cs :
         \/ cs[i] = op[i]
         \/ \E j \in DOMAIN UpperLetters :
              UpperLetters[j] = op[i] /\ LowerLetters[j] = cs[i]

OpIs(r, op) ==
    /\ Has(r, "operation")
    /\ r.payload.env["operation"].kind = "str"
    /\ Spelling(r.payload.env["operation"].chars, op)

\* the field is missing, null or an empty mapping
EmptyField(r, f) ==
    \/ ~Has(r, f)
    \/ r.payload.env[f] = JNull
    \/ r.payload.env[f] = JDict(<<>>)

\* the field is present and neither null nor empty
NonEmptyField(r, f) ==
    /\ Has(r, f)
    /\ r.payload.env[f].kind \in {"dict", "str"}
    /\ r.payload.env[f].items # <<>> \/ r.payload.env[f].chars # <<>>

\* the envelope has the three required fields and the expected event_type
WellFormedHeader(r) ==
    /\ Has(r, "operation") /\ Has(r, "table") /\ Has(r, "event_type")
    /\ r.payload.env["event_type"] = database_operation

\* no executor operation was invoked for the delivery and process_message
\* did not return success; once it has returned, it returned failure
Rejected(r) ==
    /\ r.calls = <<>>
    /\ r.stmts = <<>>
    /\ r.result # "true"
    /\ r.pc = "pm_done" => r.result = "false"

\* process_message has run for the delivery and returned failure
ReturnedFailure(r) == r.pc = "pm_done" /\ r.result = "false"

(***************************************************************************)
(* C1: an INSERT envelope (in any letter case) whose data is missing, null *)
(* or an empty mapping makes process_message return failure, and none of   *)
(* insert/update/delete is invoked for it.                                 *)
(***************************************************************************)
C1_InsertWithoutDataRejected ==
    \A r \in Callbacks :
        OpIs(r, INSERT) /\ EmptyField(r, "data") => Rejected(r)

C1_Witness ==
    \E r \in Callbacks :
        /\ OpIs(r, INSERT) /\ r.payload.env["operation"].chars # INSERT
        /\ WellFormedHeader(r)
        /\ Has(r, "data") /\ r.payload.env["data"] = JDict(<<>>)
        /\ ReturnedFailure(r)

(***************************************************************************)
(* C2: a DELETE envelope whose where_clause is missing or empty fails      *)
(* validation at the consumer before execution, and no DELETE statement is *)
(* ever executed with an empty WHERE condition.                            *)
(***************************************************************************)
C2_NoUnscopedDelete ==
    \A r \in Callbacks :
        /\ OpIs(r, DELETE) /\ EmptyField(r, "where_clause") => Rejected(r)
        /\ \A i \in DOMAIN r.stmts :
             r.stmts[i].verb = "DELETE" => r.stmts[i].where # <<>>

C2_Witness ==
    \E r \in Callbacks :
        /\ OpIs(r, DELETE)
        /\ WellFormedHeader(r)
        /\ Has(r, "where_clause") /\ r.payload.env["where_clause"] = JDict(<<>>)
        /\ ReturnedFailure(r)

(***************************************************************************)
(* C3: for an UPDATE envelope, update is invoked only if data and          *)
(* where_clause are both present and non-empty; if either is missing or    *)
(* empty, process_message returns failure and no executor operation is     *)
(* invoked.                                                                *)
(***************************************************************************)
C3_UpdateNeedsDataAndWhere ==
    \A r \in Callbacks :
        OpIs(r, UPDATE) =>
          /\ r.calls # <<>> =>
               NonEmptyField(r, "data") /\ NonEmptyField(r, "where_clause")
          /\ EmptyField(r, "data") \/ EmptyField(r, "where_clause") => Rejected(r)

C3_Witness ==
    \E r \in Callbacks :
        /\ OpIs(r, UPDATE)
        /\ WellFormedHeader(r)
        /\ NonEmptyField(r, "data")
        /\ EmptyField(r, "where_clause")
        /\ ReturnedFailure(r)

(***************************************************************************)
(* C4: an envelope whose operation is not a spelling of INSERT, UPDATE or  *)
(* DELETE (a null or non-string operation included) is rejected and never  *)
(* reaches the executor; every letter-case spelling of the three kinds is  *)
(* accepted: an envelope that meets the other requirements is dispatched   *)
(* to the executor operation of its kind.                                  *)
(***************************************************************************)
FieldsMeet(r, op) ==
    CASE op = INSERT -> NonEmptyField(r, "data")
      [] op = UPDATE -> NonEmptyField(r, "data") /\ NonEmptyField(r, "where_clause")
      [] OTHER -> NonEmptyField(r, "where_clause")

C4_OperationKind ==
    \A r \in Callbacks :
        /\ Has(r, "operation") /\ (\A op \in valid_operations : ~OpIs(r, op))
             => Rejected(r)
        /\ \A op \in {INSERT, UPDATE, DELETE} :
             /\ OpIs(r, op) /\ WellFormedHeader(r) /\ FieldsMeet(r, op)
             /\ r.pc \in {"db_exec", "pm_done"}
             => r.calls = <<Method(op)>>

C4_Witness ==
    \E r \in Callbacks :
        /\ WellFormedHeader(r)
        /\ r.payload.env["operation"] = JNull
        /\ NonEmptyField(r, "data") /\ NonEmptyField(r, "where_clause")
        /\ ReturnedFailure(r)

(***************************************************************************)
(* C5: an envelope that lacks operation, table or event_type, or whose     *)
(* event_type is not "database_operation", is rejected whatever its other  *)
(* fields are: process_message returns failure and no executor operation   *)
(* is invoked.                                                             *)
(***************************************************************************)
C5_HeaderRequired ==
    \A r \in Callbacks :
        r.payload.isdict /\ ~WellFormedHeader(r) => Rejected(r)

C5_Witness ==
    \E r \in Callbacks :
        /\ OpIs(r, INSERT) /\ NonEmptyField(r, "data")
        /\ Has(r, "event_type") /\ r.payload.env["event_type"] = database_operation
        /\ ~Has(r, "table")
        /\ ReturnedFailure(r)

(***************************************************************************)
(* C6: the callback acks a delivery if and only if process_message         *)
(* returned success for its envelope, and nacks it in every other case     *)
(* (failure returned, or an exception while handling it).                  *)
(***************************************************************************)
C6_AckIffSuccess ==
    \A r \in Callbacks :
        /\ r.decision = "ack" => r.result = "true"
        /\ r.pc = "cb_exit" =>
             r.decision = (IF r.result = "true" THEN "ack" ELSE "nack")

C6_Witness ==
    \E r \in Callbacks :
        r.pc = "cb_exit" /\ r.decision = "ack" /\ r.stmts # <<>>

(***************************************************************************)
(* C7: a delivery whose payload is not valid UTF-8 or not valid JSON is    *)
(* nacked, and neither process_message nor the executor runs for it.       *)
(***************************************************************************)
C7_UndecodableNacked ==
    \A r \in Callbacks :
        DecodeRaises(r.payload) =>
          /\ r.pc \in {"cb_try", "cb_exit"}
          /\ r.result = "none" /\ r.calls = <<>> /\ r.stmts = <<>>
          /\ r.pc = "cb_exit" => r.decision = "nack"
          /\ r.pc = "cb_try" => r.decision = "none"

C7_Witness ==
    \E r \in Callbacks :
        r.payload = BadUtf8 /\ r.pc = "cb_exit" /\ r.decision = "nack"

(***************************************************************************)
(* C8: at most 10 deliveries (the flow-control max_messages) are without   *)
(* an ack/nack decision at any time, under every interleaving of           *)
(* deliveries and completions.                                             *)
(***************************************************************************)
C8_OutstandingBounded == Outstanding <= 10

C8_Witness ==
    /\ Outstanding = 10
    /\ backlog # EmptyBag
    /\ \E r \in Callbacks : r.pc = "db_exec"

(***************************************************************************)
(* C9: every delivery handed to the callback eventually gets its ack or    *)
(* nack, also when the subscriber is stopped while the delivery is in      *)
(* flight.                                                                 *)
(***************************************************************************)
Decided == ledger.acks + ledger.nacks

C9_EveryDeliveryDecided ==
    /\ (ledger.delivered > Decided) ~> (ledger.delivered = Decided)
    /\ (streaming_pull_future = "cancelled" /\ ledger.delivered > Decided)
          ~> (ledger.delivered = Decided)
    /\ [](Decided <= ledger.delivered)

C9_Witness ==
    /\ streaming_pull_future = "cancelled"
    /\ ledger.busy_at_stop
    /\ ledger.delivered = Decided
    /\ inflight = EmptyBag

(***************************************************************************)
(* C10: stop_consuming returns only after every callback outstanding at    *)
(* the call has finished: once it has cancelled the stream and returned,   *)
(* no delivery is waiting for its ack/nack decision.                       *)
(***************************************************************************)
C10_StopWaitsForCallbacks ==
    streaming_pull_future = "cancelled" => Outstanding = 0

(***************************************************************************)
(* C12: errors are contained per message.  Every step of the consumer      *)
(* changes at most one in-flight callback: the callbacks of the other      *)
(* messages keep their result and their decision whatever happens to the   *)
(* one that took the step (a payload that does not decode, a validation    *)
(* failure, a statement that raises).  And what a callback ends with is    *)
(* its own: a result of True needs its own payload to be executable, an    *)
(* ack needs its own result to be True, a nack needs it not to be.         *)
(***************************************************************************)
OwnOutcome(r) ==
    /\ r.result = "true" =>
          ~DecodeRaises(r.payload) /\ ProcessPrefix(r.payload).out = "execute"
    /\ r.decision = "ack" => r.result = "true"
    /\ r.decision = "nack" => r.result # "true"

C12_ErrorsContained ==
    [][ /\ BagCardinality(inflight (-) inflight') <= 1
        /\ BagCardinality(inflight' (-) inflight) <= 1
        /\ \A r \in BagToSet(inflight') : OwnOutcome(r) ]_vars

\* a message whose statement failed was nacked while another message, in
\* flight at the same time, was acked
C12_Witness ==
    \E r1, r2 \in Callbacks :
        /\ r1.pc = "cb_exit" /\ r1.decision = "nack" /\ r1.stmts # <<>>
        /\ r2.pc = "cb_exit" /\ r2.decision = "ack"

(***************************************************************************)
(* The consumer at the granularity of its counter updates.  _callback runs *)
(* on the broker client's worker threads, one thread per message in        *)
(* flight, and updates self.metrics with "+= 1" on a dictionary entry      *)
(* (pubsub_subscriber.py 36, 48, 51) under no lock: the statement reads    *)
(* the entry, adds one and stores the sum, and another thread can run      *)
(* between the read and the store.  The processor's counters (main.py 83,  *)
(* 91, 107-112, 118) are updated on the event loop's thread with no await  *)
(* between read and store, so they stay single steps.                      *)
(***************************************************************************)
MaxRace == 2

\* a callback about to execute line 36
RaceCallback(p) ==
    [NewCallback(p) EXCEPT !.pc = "inc_read"]
        @@ [counter |-> "messages_received", seen |-> 0, after |-> "cb_try"]

\* the broker client enters _callback on a worker thread
DeliverEnter(p) ==
    /\ streaming_pull_future = "active"
    /\ Outstanding < max_messages
    /\ BagIn(p, backlog)
    /\ backlog' = Take(backlog, p)
    /\ inflight' = Put(inflight, RaceCallback(p))
    /\ ledger' = Bump(ledger, "delivered")
    /\ UNCHANGED <<streaming_pull_future, is_consuming, sub_metrics, metrics>>
    /\ UNCHANGED <<pool, service>>
    /\ UNCHANGED producer

\* self.metrics[k] += 1, first half: load the entry
IncRead(r) ==
    /\ BagIn(r, inflight)
    /\ r.pc = "inc_read"
    /\ inflight' = Put(Take(inflight, r),
                       [r EXCEPT !.pc = "inc_write", !.seen = sub_metrics[r.counter]])
    /\ UNCHANGED <<backlog, streaming_pull_future, is_consuming, sub_metrics, metrics,
                   ledger>>
    /\ UNCHANGED <<pool, service>>
    /\ UNCHANGED producer

\* self.metrics[k] += 1, second half: store the sum
IncWrite(r) ==
    /\ BagIn(r, inflight)
    /\ r.pc = "inc_write"
    /\ sub_metrics' = [sub_metrics EXCEPT ![r.counter] = r.seen + 1]
    /\ inflight' = Put(Take(inflight, r), [r EXCEPT !.pc = r.after, !.seen = 0])
    /\ UNCHANGED <<backlog, streaming_pull_future, is_consuming, metrics, ledger>>
    /\ UNCHANGED <<pool, service>>
    /\ UNCHANGED producer

\* _callback lines 46-47 and 49-50: .result() returned, ack or nack; the
\* counter update of line 48 or 51 follows
ResumeDecide(r) ==
    /\ BagIn(r, inflight)
    /\ r.pc = "pm_done"
    /\ IF r.result = "true"
       THEN /\ inflight' = Put(Take(inflight, r),
                               [r EXCEPT !.pc = "inc_read", !.decision = "ack",
                                         !.counter = "messages_acked",
                                         !.after = "cb_exit"])
            /\ ledger' = Bump(ledger, "acks")
       ELSE /\ inflight' = Put(Take(inflight, r),
                               [r EXCEPT !.pc = "inc_read", !.decision = "nack",
                                         !.counter = "messages_nacked",
                                         !.after = "cb_exit"])
            /\ ledger' = Bump(ledger, "nacks")
    /\ UNCHANGED <<backlog, streaming_pull_future, is_consuming, sub_metrics, metrics>>
    /\ UNCHANGED <<pool, service>>
    /\ UNCHANGED producer

NextRace ==
    \/ start_consuming
    \/ \E p \in BagToSet(backlog) : DeliverEnter(p)
    \/ \E r \in BagToSet(inflight) : IncRead(r)
    \/ \E r \in BagToSet(inflight) : IncWrite(r)
    \/ \E r \in BagToSet(inflight), loop \in BOOLEAN : CallbackTry(r, loop)
    \/ \E r \in BagToSet(inflight) : ProcessStart(r)
    \/ \E r \in BagToSet(inflight), ok \in BOOLEAN : DbComplete(r, ok)
    \/ \E r \in BagToSet(inflight) : ResumeDecide(r)
    \/ \E r \in BagToSet(inflight) : CallbackReturn(r)
    \/ stop_consuming

\* the broker holds MaxRace valid messages
InitRace ==
    /\ ProducerAbsent
    /\ InitConsumer
    /\ backlog = Copies(FlowPayload, MaxRace)

SpecRace == InitRace /\ [][NextRace]_vars

(***************************************************************************)
(* C13: no increment is lost.  Once every delivered message has been       *)
(* handled and no callback is running, the subscriber's messages_received  *)
(* equals the number of deliveries, and the processor has counted every    *)
(* message it received as processed or as failed.                          *)
(***************************************************************************)
C13_NoLostIncrement ==
    inflight = EmptyBag =>
        /\ sub_metrics.messages_received = ledger.delivered
        /\ metrics.messages_received =
               metrics.messages_processed + metrics.messages_failed

(***************************************************************************)
(* The producer (src/app1-produtora).                                      *)
(*                                                                         *)
(* Text on the producer side is a sequence of characters, one string per   *)
(* character, so that serialisation and parsing work on what is really on  *)
(* the wire.  The alphabet is printable ASCII plus a line feed and one     *)
(* character outside ASCII; a character that cannot be written in a string *)
(* of this notation goes by its code point's name.                         *)
(***************************************************************************)
Ascii ==
    << " ", "!", "\"", "#", "$", "%", "&", "'", "(", ")", "*", "+", ",", "-",
       ".", "/", "0", "1", "2", "3", "4", "5", "6", "7", "8", "9", ":", ";",
       "<", "=", ">", "?", "@", "A", "B", "C", "D", "E", "F", "G", "H", "I",
       "J", "K", "L", "M", "N", "O", "P", "Q", "R", "S", "T", "U", "V", "W",
       "X", "Y", "Z", "[", "\\", "]", "^", "_", "U+0060", "a", "b", "c", "d", "e",
       "f", "g", "h", "i", "j", "k", "l", "m", "n", "o", "p", "q", "r", "s",
       "t", "u", "v", "w", "x", "y", "z", "{", "|", "}", "~" >>

LF == "U+000A"

EAcute == "U+00E9"

IndexOf(seq, c) == CHOOSE i \in 1..Len(seq) : seq[i] = c

\* the code point of a character
CodePoint(c) ==
    IF c = LF THEN 10 ELSE IF c = EAcute THEN 233 ELSE 31 + IndexOf(Ascii, c)

\* the character of a code point; "U+FFFF" stands for one outside the alphabet
CharOf(n) ==
    IF n = 10 THEN LF
    ELSE IF n = 233 THEN EAcute
    ELSE IF n >= 32 /\ n <= 126 THEN Ascii[n - 31]
    ELSE "U+FFFF"

JBool(b) == [kind |-> "bool", chars |-> <<>>, num |-> IF b THEN 1 ELSE 0, items |-> <<>>]

\* the concatenation of a sequence of sequences, by halves
RECURSIVE Flatten(_)
Flatten(ss) ==
    IF Len(ss) = 0 THEN <<>>
    ELSE IF Len(ss) = 1 THEN ss[1]
    ELSE LET h == Len(ss) \div 2
         IN Flatten(SubSeq(ss, 1, h)) \o Flatten(SubSeq(ss, h + 1, Len(ss)))

\* str.encode('utf-8') (pubsub_client.py 139), code points below 0x800
Utf8(c) ==
    LET n == CodePoint(c)
    IN IF n < 128 THEN <<n>> ELSE <<192 + (n \div 64), 128 + (n % 64)>>

encode(cs) == Flatten([i \in 1..Len(cs) |-> Utf8(cs[i])])

IsLead2(b) == b >= 194 /\ b < 224

IsCont(b) == b >= 128 /\ b < 192

DecodeJoin(l, r) ==
    IF l.ok /\ r.ok THEN [ok |-> TRUE, chars |-> l.chars \o r.chars]
    ELSE [ok |-> FALSE, chars |-> <<>>]

\* bytes.decode('utf-8') (pubsub_subscriber.py 39): the characters, or
\* ok = FALSE where Python raises UnicodeDecodeError.  The bytes are decoded
\* by halves, cut between two characters; sequences of three and four bytes
\* encode code points outside the alphabet and are not accepted here.
RECURSIVE decode(_)
decode(bs) ==
    LET n == Len(bs)
        bad == [ok |-> FALSE, chars |-> <<>>]
    IN IF n = 0 THEN [ok |-> TRUE, chars |-> <<>>]
       ELSE IF n = 1
       THEN IF bs[1] < 128 THEN [ok |-> TRUE, chars |-> <<CharOf(bs[1])>>] ELSE bad
       ELSE IF n = 2 /\ IsCont(bs[2])
       THEN IF IsLead2(bs[1])
            THEN [ok |-> TRUE,
                  chars |-> <<CharOf((bs[1] - 192) * 64 + (bs[2] - 128))>>]
            ELSE bad
       ELSE LET h == n \div 2
                m == IF IsCont(bs[h + 1]) THEN h + 1 ELSE h
            IN DecodeJoin(decode(SubSeq(bs, 1, m)), decode(SubSeq(bs, m + 1, n)))

\* json.dumps writes a string without escaping the quote and the backslash
EscapeChar_Raw(c) == <<c>>

\* json.dumps with ensure_ascii=False: the quote, the backslash and control
\* characters are escaped, every other character is written as it is
EscapeChar(c) ==
    IF c = "\"" THEN <<"\\", "\"">>
    ELSE IF c = "\\" THEN <<"\\", "\\">>
    ELSE IF c = LF THEN <<"\\", "n">>
    ELSE <<c>>

DumpStr(cs) == <<"\"">> \o Flatten([i \in 1..Len(cs) |-> EscapeChar(cs[i])]) \o <<"\"">>

RECURSIVE Digits(_)
Digits(n) ==
    IF n < 10 THEN <<Ascii[17 + n]>>
    ELSE Digits(n \div 10) \o <<Ascii[17 + (n % 10)]>>

DumpInt(n) == IF n < 0 THEN <<"-">> \o Digits(0 - n) ELSE Digits(n)

\* json.dumps(data, ensure_ascii=False, default=str) (pubsub_client.py 132)
\* with the default separators ", " and ": "
RECURSIVE json_dumps(_)
json_dumps(v) ==
    CASE v.kind = "str"  -> DumpStr(v.chars)
      [] v.kind = "int"  -> DumpInt(v.num)
      [] v.kind = "bool" -> IF v.num = 1 THEN <<"t", "r", "u", "e">>
                            ELSE <<"f", "a", "l", "s", "e">>
      [] v.kind = "null" -> <<"n", "u", "l", "l">>
      [] OTHER ->
           <<"{">>
           \o Flatten([i \in 1..Len(v.items) |->
                 (IF i > 1 THEN <<",", " ">> ELSE <<>>)
                 \o DumpStr(v.items[i].k) \o <<":", " ">>
                 \o json_dumps(v.items[i].v)])
           \o <<"}">>

(***************************************************************************)
(* json.loads (pubsub_subscriber.py 40) as a recursive-descent parser over *)
(* the characters: strings with the escapes of the alphabet, integers,     *)
(* true, false, null and objects.  A result is [ok, v, i]: whether the     *)
(* text parsed, the value, and the position after it; ok = FALSE is where  *)
(* Python raises JSONDecodeError.                                          *)
(***************************************************************************)
ParseFail == [ok |-> FALSE, v |-> JNull, i |-> 0]

At(s, i) == IF i >= 1 /\ i <= Len(s) THEN s[i] ELSE "U+FFFF"

RECURSIVE SkipWs(_, _)
SkipWs(s, i) == IF At(s, i) \in {" ", LF} THEN SkipWs(s, i + 1) ELSE i

Matches(s, i, word) ==
    /\ i + Len(word) - 1 <= Len(s)
    /\ \A j \in 1..Len(word) : s[i + j - 1] = word[j]

\* the body of a string from position i on, acc the characters read so far
RECURSIVE ScanStr(_, _, _)
ScanStr(s, i, acc) ==
    LET c == At(s, i)
    IN IF i > Len(s) \/ c = LF THEN ParseFail
       ELSE IF c = "\"" THEN [ok |-> TRUE, v |-> JStr(acc), i |-> i + 1]
       ELSE IF c = "\\"
       THEN LET e == At(s, i + 1)
            IN IF e \in {"\"", "\\", "/"} THEN ScanStr(s, i + 2, Append(acc, e))
               ELSE IF e = "n" THEN ScanStr(s, i + 2, Append(acc, LF))
               ELSE ParseFail
       ELSE ScanStr(s, i + 1, Append(acc, c))

DigitChars == { Ascii[17 + d] : d \in 0..9 }

RECURSIVE ScanInt(_, _, _)
ScanInt(s, i, acc) ==
    IF At(s, i) \in DigitChars
    THEN ScanInt(s, i + 1, 10 * acc + (CodePoint(s[i]) - 48))
    ELSE [ok |-> TRUE, v |-> JInt(acc), i |-> i]

ParseInt(s, i) ==
    IF At(s, i) = "-"
    THEN IF At(s, i + 1) \in DigitChars
         THEN LET r == ScanInt(s, i + 1, 0)
              IN [ok |-> TRUE, v |-> JInt(0 - r.v.num), i |-> r.i]
         ELSE ParseFail
    ELSE ScanInt(s, i, 0)

RECURSIVE ParseValue(_, _)
RECURSIVE ParseMembers(_, _, _)

\* the members of an object from position i on, up to the closing brace
ParseMembers(s, i, acc) ==
    IF At(s, i) # "\"" THEN ParseFail
    ELSE LET key == ScanStr(s, i + 1, <<>>)
         IN IF ~key.ok THEN ParseFail
            ELSE LET c == SkipWs(s, key.i)
                 IN IF At(s, c) # ":" THEN ParseFail
                    ELSE LET val == ParseValue(s, SkipWs(s, c + 1))
                         IN IF ~val.ok THEN ParseFail
                            ELSE LET e == SkipWs(s, val.i)
                                     its == Append(acc, Item(key.v.chars, val.v))
                                 IN IF At(s, e) = "}"
                                    THEN [ok |-> TRUE, v |-> JDict(its), i |-> e + 1]
                                    ELSE IF At(s, e) = ","
                                    THEN ParseMembers(s, SkipWs(s, e + 1), its)
                                    ELSE ParseFail

ParseValue(s, i) ==
    LET c == At(s, i)
    IN IF c = "\"" THEN ScanStr(s, i + 1, <<>>)
       ELSE IF c = "{"
       THEN LET j == SkipWs(s, i + 1)
            IN IF At(s, j) = "}" THEN [ok |-> TRUE, v |-> JDict(<<>>), i |-> j + 1]
               ELSE ParseMembers(s, j, <<>>)
       ELSE IF c = "-" \/ c \in DigitChars THEN ParseInt(s, i)
       ELSE IF Matches(s, i, <<"t", "r", "u", "e">>)
       THEN [ok |-> TRUE, v |-> JBool(TRUE), i |-> i + 4]
       ELSE IF Matches(s, i, <<"f", "a", "l", "s", "e">>)
       THEN [ok |-> TRUE, v |-> JBool(FALSE), i |-> i + 5]
       ELSE IF Matches(s, i, <<"n", "u", "l", "l">>)
       THEN [ok |-> TRUE, v |-> JNull, i |-> i + 4]
       ELSE ParseFail

json_loads(s) ==
    LET r == ParseValue(s, SkipWs(s, 1))
    IN IF r.ok /\ SkipWs(s, r.i) = Len(s) + 1
       THEN [ok |-> TRUE, v |-> r.v]
       ELSE [ok |-> FALSE, v |-> JNull]

\* _callback lines 39-40: json.loads(message.data.decode("utf-8"))
Decoded(bytes) ==
    LET text == decode(bytes)
    IN IF text.ok THEN json_loads(text.chars) ELSE [ok |-> FALSE, v |-> JNull]

(***************************************************************************)
(* Producer values.  A request that passed the DatabaseOperation model     *)
(* (main.py 38-65) carries operation, table, data and where_clause; data   *)
(* and where_clause are None when the caller left them out.                *)
(***************************************************************************)
MaxRequests == 2

MaxRejected == 1

\* the instants, on the clock of time.time(), at which requests arrive
Instants == {1}

MaxBatch == 3

K_event_id == <<"e", "v", "e", "n", "t", "_", "i", "d">>

K_timestamp == <<"t", "i", "m", "e", "s", "t", "a", "m", "p">>

K_source == <<"s", "o", "u", "r", "c", "e">>

K_event_type == <<"e", "v", "e", "n", "t", "_", "t", "y", "p", "e">>

K_operation == <<"o", "p", "e", "r", "a", "t", "i", "o", "n">>

K_table == <<"t", "a", "b", "l", "e">>

K_data == <<"d", "a", "t", "a">>

K_where_clause == <<"w", "h", "e", "r", "e", "_", "c", "l", "a", "u", "s", "e">>

T_producer == <<"a", "p", "p", "1", "-", "p", "r", "o", "d", "u", "t", "o", "r", "a">>

T_database_operation == <<"d", "a", "t", "a", "b", "a", "s", "e", "_", "o", "p", "e", "r", "a", "t", "i", "o", "n">>

T_unknown == <<"u", "n", "k", "n", "o", "w", "n">>

T_users == <<"u", "s", "e", "r", "s">>

T_name == <<"n", "a", "m", "e">>

T_age == <<"a", "g", "e">>

T_Ana == <<"A", "n", "a">>

\* requests as they arrive at POST /database-operation (main.py 237-238):
\* the three kinds of operation in three spellings, an operation outside the
\* three kinds, an empty table name and an UPDATE with an empty data mapping
RawRequests ==
    { [operation |-> <<"i", "n", "s", "e", "r", "t">>, table |-> T_users,
       data |-> JDict(<<Item(T_name, JStr(T_Ana)), Item(T_age, JInt(30))>>),
       where_clause |-> JNull],
      [operation |-> <<"U", "p", "d", "a", "t", "e">>, table |-> T_users,
       data |-> JDict(<<Item(T_age, JInt(31))>>),
       where_clause |-> JDict(<<Item(T_name, JStr(T_Ana))>>)],
      [operation |-> DELETE, table |-> T_users,
       data |-> JNull,
       where_clause |-> JDict(<<Item(T_name, JStr(T_Ana))>>)],
      [operation |-> <<"s", "e", "l", "e", "c", "t">>, table |-> T_users,
       data |-> JNull,
       where_clause |-> JDict(<<Item(T_name, JStr(T_Ana))>>)],
      [operation |-> INSERT, table |-> <<>>,
       data |-> JDict(<<Item(T_age, JInt(30))>>),
       where_clause |-> JNull],
      [operation |-> UPDATE, table |-> T_users,
       data |-> JDict(<<>>),
       where_clause |-> JDict(<<Item(T_name, JStr(T_Ana))>>)] }

\* main.py 54
allowed_operations == {INSERT, UPDATE, DELETE}

Invalid == [ok |-> FALSE, v |-> <<>>]

\* the operation is checked in upper case and passed on as it was sent
validate_operation_AsSent(v) ==
    IF Upper(v) \notin allowed_operations
    THEN Invalid
    ELSE [ok |-> TRUE, v |-> v]

\* main.py 51-57: ValueError, or the operation in upper case
validate_operation(v) ==
    IF Upper(v) \notin allowed_operations
    THEN Invalid
    ELSE [ok |-> TRUE, v |-> Upper(v)]

\* main.py 59-65, for a data mapping that was sent: operation is the
\* validated one, or the empty text when its validation failed (line 62);
\* the second element of the list of line 63 is read as 'UPDATE'
validate_data_for_insert_update(v, operation) ==
    ~ (Upper(operation) \in {INSERT, UPDATE} /\ ~Truthy(v))

\* main.py 38-65: the model built from a request, or its rejection.  Fields
\* are validated in their order; table needs one character at least (47).
DatabaseOperation(raw) ==
    LET o == validate_operation(raw.operation)
    IN [ok |-> /\ o.ok
               /\ Len(raw.table) >= 1
               /\ raw.data # JNull =>
                      validate_data_for_insert_update(raw.data, o.v),
        value |-> [raw EXCEPT !.operation = o.v]]

\* the requests that reach the handler
ProducerOps ==
    { DatabaseOperation(raw).value :
          raw \in { q \in RawRequests : DatabaseOperation(q).ok } }

\* datetime.utcnow().isoformat(): a text that the instant determines
isoformat(t) == <<"T">> \o Digits(t)

\* main.py 259-268: the envelope of the n-th request, built at instant t
event_data(op, t, n) ==
    JDict(<<Item(K_event_id,
                 JStr(<<"e", "v", "t", "_">> \o Digits(t) \o <<"_">> \o Digits(n))),
            Item(K_timestamp, JStr(isoformat(t))),
            Item(K_source, JStr(T_producer)),
            Item(K_event_type, JStr(T_database_operation)),
            Item(K_operation, JStr(op.operation)),
            Item(K_table, JStr(op.table)),
            Item(K_data, op.data),
            Item(K_where_clause, op.where_clause)>>)

\* dict.get(key, default)
DictGet(d, key, default) ==
    IF \E i \in 1..Len(d.items) : d.items[i].k = key
    THEN d.items[CHOOSE i \in 1..Len(d.items) : d.items[i].k = key].v
    ELSE default

\* publish_message 131-154: the message handed to publisher_client.publish
\* for the envelope data at instant t
MessageOf(data, t) ==
    [data |-> encode(json_dumps(data)),
     attributes |-> [source |-> JStr(T_producer),
                     event_type |-> DictGet(data, K_event_type, JStr(T_unknown)),
                     timestamp |-> DictGet(data, K_timestamp, JStr(isoformat(t))),
                     operation |-> DictGet(data, K_operation, JStr(T_unknown))],
     via |-> "publish_message",
     payload |-> data]

\* publish_batch 219-233: the message handed to publisher_client.publish for
\* entry i (counted from 0) of a batch of size entries
BatchMessageOf(message, i, size, t) ==
    [data |-> encode(json_dumps(message)),
     attributes |-> [source |-> JStr(T_producer),
                     batch_index |-> JStr(Digits(i)),
                     batch_size |-> JStr(Digits(size)),
                     timestamp |-> JStr(isoformat(t))],
     via |-> "publish_batch",
     payload |-> message]

\* identifiers the broker gives: to attempt k of the send of request n, and
\* to entry i of the batch
MsgId(n, k) == [of |-> "request", n |-> n, attempt |-> k]

BatchId(i) == [of |-> "batch", n |-> i, attempt |-> 1]

NoId == [of |-> "none", n |-> 0, attempt |-> 0]

(***************************************************************************)
(* Start-up: lifespan constructs the publisher (main.py 86-91), whose      *)
(* constructor resolves credentials, creates the client and looks the      *)
(* topic up (pubsub_client.py 61-66, 74-98, 105-115).                      *)
(***************************************************************************)
Clouds ==
    [creds : {"adc", "sa_key", "none"},
     topic : {"exists", "absent", "denied", "unavailable"}]

\* the topic lookup is made but its failure only logged
_verify_topic_exists_LogOnly == "ok"

\* get_topic returns, or raises NotFound or PermissionDenied, which are
\* replaced by an Exception, or raises another error, which propagates
_verify_topic_exists ==
    IF cloud.topic = "exists" THEN "ok" ELSE "raise"

\* default() finds credentials, or a service account key file exists, or
\* DefaultCredentialsError is raised again; then the topic is verified
_initialize_client ==
    IF cloud.creds = "none" THEN "raise" ELSE _verify_topic_exists

\* lifespan up to its yield: the exception of the constructor is logged by
\* __init__ and by lifespan and raised again, which ends the start-up
lifespan_startup ==
    /\ app = "starting"
    /\ IF _initialize_client = "ok"
       THEN publisher' = "ready" /\ app' = "serving"
       ELSE publisher' = "failed" /\ app' = "aborted"
    /\ UNCHANGED <<cloud, producer_metrics, requests, topic_msgs, batch, wire>>
    /\ UNCHANGED consumer

(***************************************************************************)
(* POST /database-operation (main.py 237-302) and publish_message          *)
(* (pubsub_client.py 117-198).  send is what the broker client will do     *)
(* with this message: issue says whether publisher_client.publish returns  *)
(* a future or raises, and plan[k] is the outcome a k-th wait for the      *)
(* send would have ("ok", "transient" for an error that a later attempt    *)
(* can overcome, "error", "timeout").                                      *)
(***************************************************************************)
Plans ==
    { <<"ok">>, <<"error">>, <<"timeout">>,
      <<"transient", "transient", "transient", "ok">> }

SendChoices ==
    { [issue |-> "raise", plan |-> <<>>] }
        \cup { [issue |-> "ok", plan |-> p] : p \in Plans }

\* _wait_for_publish 183-188: the policy object that _get_result builds
retry_policy == [initial |-> 1, maximum |-> 60, multiplier |-> 2, deadline |-> 300]

NoResponse == [status |-> "none", message_id |-> NoId]

\* the requests that validation turned away
Rejections ==
    BagCardinality([r \in { q \in BagToSet(requests) : q.pc = "rejected" }
                      |-> requests[r]])

\* main.py 237-238: a request from which no DatabaseOperation can be built
\* is answered by the framework (422) and the handler does not run
RejectRequest(raw, t) ==
    /\ app = "serving"
    /\ Rejections < MaxRejected
    /\ ~DatabaseOperation(raw).ok
    /\ requests' = Put(requests,
           [n |-> 0, raw |-> raw, op |-> raw, t |-> t,
            send |-> [issue |-> "none", plan |-> <<>>], pc |-> "rejected",
            waits |-> 0,
            response |-> [status |-> "rejected", message_id |-> NoId]])
    /\ UNCHANGED <<cloud, publisher, app, producer_metrics, topic_msgs, batch, wire>>
    /\ UNCHANGED consumer

\* the handler from its entry to the await of line 157 (pubsub_client.py),
\* for a request that DatabaseOperation accepted:
\* count the request, build the envelope, serialise it and hand it to the
\* broker client.  If that raises, publish_message raises again (162-164)
\* and the handler counts the failure and answers 500 (main.py 287-302).
PublishRequest(raw, t, send) ==
    /\ app = "serving"
    /\ producer_metrics.total_requests < MaxRequests
    /\ DatabaseOperation(raw).ok
    /\ LET op == DatabaseOperation(raw).value
           n == producer_metrics.total_requests + 1
           counted == Bump(producer_metrics, "total_requests")
           data == event_data(op, t, n)
           r == [n |-> n, raw |-> raw, op |-> op, t |-> t, send |-> send,
                 pc |-> "waiting", waits |-> 0, response |-> NoResponse]
       IN IF send.issue = "raise"
          THEN /\ producer_metrics' = Bump(counted, "failed_publishes")
               /\ requests' = Put(requests,
                      [r EXCEPT !.pc = "done",
                                !.response = [status |-> "error", message_id |-> NoId]])
               /\ UNCHANGED topic_msgs
          ELSE /\ producer_metrics' = counted
               /\ requests' = Put(requests, r)
               /\ topic_msgs' = Put(topic_msgs, MessageOf(data, t))
    /\ UNCHANGED <<cloud, publisher, app, batch, wire>>
    /\ UNCHANGED consumer

\* a failed send is answered like a successful one, without a message id
PublishResume_Swallow(r) ==
    /\ BagIn(r, requests)
    /\ r.pc = "waiting"
    /\ producer_metrics' = Bump(producer_metrics, "successful_publishes")
    /\ requests' = Put(Take(requests, r),
           [r EXCEPT !.pc = "done", !.waits = 1,
                     !.response = [status |-> "success",
                                   message_id |-> IF r.send.plan[1] = "ok"
                                                  THEN MsgId(r.n, 1) ELSE NoId]])
    /\ UNCHANGED <<cloud, publisher, app, topic_msgs, batch, wire>>
    /\ UNCHANGED consumer

\* _get_result (pubsub_client.py 179-195) waits for the future once, with
\* future.result(timeout=30.0); retry_policy is built and not applied.  The
\* handler resumes with the message id, counts the success and answers
\* (main.py 274-285), or with the exception, counts the failure and answers
\* 500 (main.py 287-302).
PublishResume(r) ==
    /\ BagIn(r, requests)
    /\ r.pc = "waiting"
    /\ IF r.send.plan[1] = "ok"
       THEN /\ producer_metrics' = Bump(producer_metrics, "successful_publishes")
            /\ requests' = Put(Take(requests, r),
                   [r EXCEPT !.pc = "done", !.waits = 1,
                             !.response = [status |-> "success",
                                           message_id |-> MsgId(r.n, 1)]])
       ELSE /\ producer_metrics' = Bump(producer_metrics, "failed_publishes")
            /\ requests' = Put(Take(requests, r),
                   [r EXCEPT !.pc = "done", !.waits = 1,
                             !.response = [status |-> "error", message_id |-> NoId]])
    /\ UNCHANGED <<cloud, publisher, app, topic_msgs, batch, wire>>
    /\ UNCHANGED consumer

NextProducer ==
    \/ lifespan_startup
    \/ \E raw \in RawRequests, t \in Instants, send \in SendChoices :
           PublishRequest(raw, t, send)
    \/ \E r \in BagToSet(requests) : PublishResume(r)

\* the consumer process is not running and its subscription is empty
ConsumerAbsent ==
    /\ InitConsumer
    /\ backlog = EmptyBag

\* the producer process before its start-up, in any environment
InitProducer ==
    /\ ConsumerAbsent
    /\ cloud \in Clouds
    /\ publisher = "None"
    /\ app = "starting"
    /\ producer_metrics = [total_requests |-> 0, successful_publishes |-> 0,
                           failed_publishes |-> 0]
    /\ requests = EmptyBag
    /\ topic_msgs = EmptyBag
    /\ batch = [pc |-> "idle", messages |-> <<>>, outcomes |-> <<>>,
                issued |-> 0, result |-> <<>>]
    /\ wire = [stage |-> "idle", envelope |-> JNull, bytes |-> <<>>,
               received |-> [ok |-> FALSE, v |-> JNull]]

SpecProducer == InitProducer /\ [][NextProducer]_vars

(***************************************************************************)
(* C14: the publisher verifies the topic while it is constructed, before   *)
(* any publish.  If the topic is absent or access to it is denied the      *)
(* constructor fails, the application never serves, no request is counted  *)
(* and nothing is ever handed to the broker client; and whenever something *)
(* has been handed to it, the publisher was constructed against a topic    *)
(* that exists.                                                            *)
(***************************************************************************)
C14_TopicVerifiedBeforePublish ==
    /\ cloud.topic # "exists" =>
          /\ publisher # "ready"
          /\ app # "serving"
          /\ topic_msgs = EmptyBag
          /\ producer_metrics.total_requests = 0
    /\ topic_msgs # EmptyBag => publisher = "ready" /\ cloud.topic = "exists"

\* credentials were found, the topic is absent or denied, and the start-up
\* has ended with the publisher not constructed
C14_Witness ==
    /\ cloud.creds # "none"
    /\ cloud.topic \in {"absent", "denied"}
    /\ publisher = "failed"
    /\ app = "aborted"

(***************************************************************************)
(* C15: when the send of one publish call fails transiently three times    *)
(* and would succeed on the fourth attempt, within the deadline of the     *)
(* retry policy (delays of 1, 2, 4, ... capped at 60, 300 in all), the     *)
(* request is answered with success and with the message id of the fourth  *)
(* attempt.                                                                *)
(***************************************************************************)
RECURSIVE Power(_, _)
Power(b, e) == IF e = 0 THEN 1 ELSE b * Power(b, e - 1)

\* the delay of the policy after the k-th failed attempt
Backoff(k) ==
    LET d == retry_policy.initial * Power(retry_policy.multiplier, k - 1)
    IN IF d < retry_policy.maximum THEN d ELSE retry_policy.maximum

RECURSIVE WaitBefore(_)
WaitBefore(k) == IF k <= 1 THEN 0 ELSE WaitBefore(k - 1) + Backoff(k - 1)

\* the first attempt of the plan that succeeds after transient failures
\* only, or 0
FirstSuccess(plan) ==
    IF \E k \in 1..Len(plan) :
           plan[k] = "ok" /\ \A j \in 1..(k - 1) : plan[j] = "transient"
    THEN CHOOSE k \in 1..Len(plan) :
           plan[k] = "ok" /\ \A j \in 1..(k - 1) : plan[j] = "transient"
    ELSE 0

C15_RetriesUntilSuccess ==
    \A r \in BagToSet(requests) :
        LET k == FirstSuccess(r.send.plan)
        IN r.pc = "done" /\ r.send.issue = "ok" /\ k > 0
              /\ WaitBefore(k) <= retry_policy.deadline
           => r.response = [status |-> "success", message_id |-> MsgId(r.n, k)]

(***************************************************************************)
(* C16: no silent drop by the producer.  A request is answered with        *)
(* success, and with the broker's message id, only when the broker client  *)
(* accepted the message and the wait for it returned an id; in every other *)
(* case (the send raised, the wait raised or timed out) the answer is an   *)
(* error and failed_publishes counts it.  The counters of successes and    *)
(* failures equal the numbers of such answers.                             *)
(***************************************************************************)
Answered(st) ==
    BagCardinality([r \in { q \in BagToSet(requests) :
                              q.pc = "done" /\ q.response.status = st }
                      |-> requests[r]])

C16_NoSilentDrop ==
    /\ \A r \in BagToSet(requests) :
          r.pc = "done" =>
             IF r.send.issue = "ok" /\ r.send.plan[1] = "ok"
             THEN r.response = [status |-> "success", message_id |-> MsgId(r.n, 1)]
             ELSE r.response = [status |-> "error", message_id |-> NoId]
    /\ producer_metrics.failed_publishes = Answered("error")
    /\ producer_metrics.successful_publishes = Answered("success")

\* a request whose wait for the broker failed was answered with an error and
\* counted as a failed publish
C16_Witness ==
    \E r \in BagToSet(requests) :
        /\ r.pc = "done"
        /\ r.send.issue = "ok"
        /\ r.send.plan[1] \in {"error", "timeout"}
        /\ r.response.status = "error"
        /\ producer_metrics.failed_publishes >= 1

(***************************************************************************)
(* PubSubPublisher.publish_batch (pubsub_client.py 200-254), a synchronous *)
(* method: it runs from its call to its return or its exception as one     *)
(* step.  outcomes[i] is what happens to the send of entry i: "ok" (the    *)
(* future gives a message id), "error" (future.result raises, a timeout    *)
(* included) or "raise" (serialising the entry or publisher_client.publish *)
(* raises while the send is issued, lines 220-234).                        *)
(***************************************************************************)
Outcomes == {"ok", "error", "raise"}

BatchEnvelopes ==
    { event_data(op, 1, 1) : op \in { o \in ProducerOps : o.data # JNull } }

BatchInputs ==
    UNION { [1..n -> BatchEnvelopes] \X [1..n -> Outcomes] : n \in 0..MaxBatch }

\* the first entry whose send raises while it is issued, or 0
FirstRaise(outcomes) ==
    IF \E i \in 1..Len(outcomes) : outcomes[i] = "raise"
    THEN CHOOSE i \in 1..Len(outcomes) :
            outcomes[i] = "raise" /\ \A j \in 1..(i - 1) : outcomes[j] # "raise"
    ELSE 0

\* The first loop (219-235) issues the sends in order; an exception in it
\* reaches the handler of line 252, which raises it again: the entries
\* before it have been handed to the broker client, the others have not,
\* and no outcome is awaited.  Otherwise the second loop (238-245) awaits
\* the futures in order and appends the id, or None on an exception.
publish_batch(messages, outcomes, t) ==
    /\ publisher = "ready"
    /\ batch.pc = "idle"
    /\ Len(messages) = Len(outcomes)
    /\ LET size == Len(messages)
           stop == FirstRaise(outcomes)
           issued == IF stop = 0 THEN size ELSE stop - 1
       IN /\ topic_msgs' = topic_msgs
                 (+) SetToBag({ BatchMessageOf(messages[i], i - 1, size, t) :
                                   i \in 1..issued })
          /\ batch' = [pc |-> IF stop = 0 THEN "returned" ELSE "raised",
                       messages |-> messages,
                       outcomes |-> outcomes,
                       issued |-> issued,
                       result |-> IF stop = 0
                                  THEN [i \in 1..size |->
                                          IF outcomes[i] = "ok" THEN BatchId(i)
                                          ELSE NoId]
                                  ELSE <<>>]
    /\ UNCHANGED <<cloud, publisher, app, producer_metrics, requests, wire>>
    /\ UNCHANGED consumer

NextBatch ==
    \/ lifespan_startup
    \/ \E in \in BatchInputs, t \in Instants : publish_batch(in[1], in[2], t)

SpecBatch == InitProducer /\ [][NextBatch]_vars

(***************************************************************************)
(* C17: publish_batch on N envelopes returns N entries in input order,     *)
(* entry i being the message id of envelope i if its send succeeded and    *)
(* null if it failed, for every N >= 0 and every pattern of outcomes.      *)
(***************************************************************************)
C17_BatchResultComplete ==
    batch.pc # "idle" =>
        /\ batch.pc = "returned"
        /\ Len(batch.result) = Len(batch.messages)
        /\ \A i \in 1..Len(batch.messages) :
              batch.result[i] = IF batch.outcomes[i] = "ok" THEN BatchId(i) ELSE NoId

(***************************************************************************)
(* C18: batch failures are independent.  When the send of envelope i       *)
(* fails, while it is issued or while its outcome is awaited, the call     *)
(* still returns, every other envelope whose own send can be issued is     *)
(* handed to the broker client, and every other entry of the result        *)
(* reports that envelope's own outcome.                                    *)
(***************************************************************************)
Handed(j) ==
    \E m \in BagToSet(topic_msgs) :
        /\ m.via = "publish_batch"
        /\ m.attributes.batch_index = JStr(Digits(j - 1))
        /\ m.payload = batch.messages[j]

C18_BatchFailuresIndependent ==
    batch.pc # "idle" =>
        \A i \in 1..Len(batch.messages) :
            batch.outcomes[i] # "ok" =>
                /\ batch.pc # "raised"
                /\ \A j \in 1..Len(batch.messages) \ {i} :
                      /\ batch.outcomes[j] # "raise" => Handed(j)
                      /\ j <= Len(batch.result)
                      /\ batch.outcomes[j] = "ok" => batch.result[j] = BatchId(j)
                      /\ batch.outcomes[j] # "ok" => batch.result[j] = NoId

(***************************************************************************)
(* C20: every message handed to the broker client, by publish_message or   *)
(* by publish_batch, carries the attributes source, event_type, timestamp  *)
(* and operation, and its event_type and operation attributes equal the    *)
(* fields of the envelope in its payload.                                  *)
(***************************************************************************)
C20_AttributesCarried ==
    \A m \in BagToSet(topic_msgs) :
        /\ {"source", "event_type", "timestamp", "operation"} \subseteq DOMAIN m.attributes
        /\ m.attributes.event_type = DictGet(m.payload, K_event_type, Missing)
        /\ m.attributes.operation = DictGet(m.payload, K_operation, Missing)

(***************************************************************************)
(* One envelope from the publisher's serialisation to the consumer's       *)
(* decoding: publish_message turns the envelope into bytes                 *)
(* (pubsub_client.py 132, 139), the broker carries the bytes unchanged,    *)
(* and _callback turns them back into a value (pubsub_subscriber.py        *)
(* 39-40).  The envelopes have data and where_clause mappings of up to     *)
(* MaxEntries entries whose values are strings (with characters that need  *)
(* escaping and a character outside ASCII), integers, booleans and null.   *)
(***************************************************************************)
MaxEntries == 2

RoundTripKeys == { T_name, T_age, <<"q", "\"", EAcute>> }

RoundTripValues ==
    { JStr(T_Ana), JStr(<<"\"", "\\", EAcute, LF, "}", " ">>),
      JInt(1), JInt(0 - 12), JBool(TRUE), JBool(FALSE), JNull }

MixedMapping ==
    JDict(<<Item(T_name, JStr(<<"A", "\"", "n", "\\", "a", EAcute>>)),
            Item(T_age, JInt(30)),
            Item(<<"o", "k">>, JBool(TRUE)),
            Item(<<"n", "o", "t", "e">>, JNull)>>)

\* the mappings of up to MaxEntries entries with distinct keys
RoundTripMappings ==
    { MixedMapping }
    \cup UNION { { JDict([i \in 1..n |-> Item(ks[i], vs[i])]) :
                      ks \in { f \in [1..n -> RoundTripKeys] :
                                  \A i, j \in 1..n : i # j => f[i] # f[j] },
                      vs \in [1..n -> RoundTripValues] } :
                 n \in 0..MaxEntries }

RoundTripEnvelopes ==
    { event_data([operation |-> UPDATE, table |-> T_users,
                  data |-> d, where_clause |-> w], 1, 1) :
         d \in RoundTripMappings, w \in { JNull, MixedMapping } }

\* the handler has built an envelope (main.py 259-268)
Build(envelope) ==
    /\ wire.stage = "idle"
    /\ wire' = [wire EXCEPT !.stage = "built", !.envelope = envelope]
    /\ UNCHANGED <<cloud, publisher, app, producer_metrics, requests, topic_msgs,
                   batch>>
    /\ UNCHANGED consumer

\* publish_message 132 and 139: json.dumps, then encode
Serialize ==
    /\ wire.stage = "built"
    /\ wire' = [wire EXCEPT !.stage = "sent",
                            !.bytes = encode(json_dumps(wire.envelope))]
    /\ UNCHANGED <<cloud, publisher, app, producer_metrics, requests, topic_msgs,
                   batch>>
    /\ UNCHANGED consumer

\* _callback 39-40: decode, then json.loads
Receive ==
    /\ wire.stage = "sent"
    /\ wire' = [wire EXCEPT !.stage = "received", !.received = Decoded(wire.bytes)]
    /\ UNCHANGED <<cloud, publisher, app, producer_metrics, requests, topic_msgs,
                   batch>>
    /\ UNCHANGED consumer

NextRoundTrip ==
    \/ \E envelope \in RoundTripEnvelopes : Build(envelope)
    \/ Serialize
    \/ Receive

InitRoundTrip ==
    /\ ConsumerAbsent
    /\ ProducerAbsent

SpecRoundTrip == InitRoundTrip /\ [][NextRoundTrip]_vars

(***************************************************************************)
(* C19: round trip.  For every envelope whose data and where_clause are    *)
(* mappings with string, integer, boolean and null values, what the        *)
(* consumer obtains by decoding the bytes as UTF-8 and parsing the text as *)
(* JSON is the envelope the publisher serialised, field for field.         *)
(***************************************************************************)
C19_RoundTrip ==
    wire.stage = "received" =>
        wire.received = [ok |-> TRUE, v |-> wire.envelope]

\* an envelope whose data holds a string with a quote, a backslash and a
\* character outside ASCII, an integer, a boolean and a null has been
\* serialised, carried and parsed
C19_Witness ==
    /\ wire.stage = "received"
    /\ wire.received.ok
    /\ DictGet(wire.envelope, K_data, JNull) = MixedMapping
    /\ Len(wire.bytes) > Len(json_dumps(wire.envelope))

(***************************************************************************)
(* C21: the producer normalizes operation to upper case and rejects every  *)
(* request whose operation is outside INSERT, UPDATE and DELETE.  Every    *)
(* envelope handed to the broker carries one of the three upper-case       *)
(* kinds, the upper case of what the request sent; a request with another  *)
(* operation is rejected; and a rejected request publishes nothing and is  *)
(* not counted: the messages handed to the broker are as many as the       *)
(* accepted requests whose send was issued.                                *)
(***************************************************************************)
\* the arrival of requests, valid and invalid, at a producer that serves;
\* the send of an accepted request is issued or raises, and its wait is left
\* out
ValidationSends == { s \in SendChoices : s.plan \in {<<>>, <<"ok">>} }

NextValidation ==
    \/ lifespan_startup
    \/ \E raw \in RawRequests, t \in Instants : RejectRequest(raw, t)
    \/ \E raw \in RawRequests, t \in Instants, send \in ValidationSends :
           PublishRequest(raw, t, send)

SpecValidation == InitProducer /\ [][NextValidation]_vars

Issued ==
    BagCardinality([r \in { q \in BagToSet(requests) :
                              q.pc # "rejected" /\ q.send.issue = "ok" }
                      |-> requests[r]])

C21_OperationNormalized ==
    /\ \A m \in BagToSet(topic_msgs) :
          /\ DictGet(m.payload, K_operation, JNull)
                 \in { JStr(o) : o \in {INSERT, UPDATE, DELETE} }
          /\ Decoded(m.data).ok
          /\ DictGet(Decoded(m.data).v, K_operation, JNull)
                 \in { JStr(o) : o \in {INSERT, UPDATE, DELETE} }
    /\ \A r \in BagToSet(requests) :
          /\ Upper(r.raw.operation) \notin {INSERT, UPDATE, DELETE}
                 => r.pc = "rejected"
          /\ r.pc # "rejected" =>
                 /\ r.op.operation = Upper(r.raw.operation)
                 /\ r.op.operation \in {INSERT, UPDATE, DELETE}
          /\ r.pc = "rejected" => r.n = 0
    /\ BagCardinality(topic_msgs) = Issued
    /\ producer_metrics.total_requests
           = BagCardinality(requests) - Rejections

\* a request that sent "select" was rejected, and a request that sent
\* "insert" was published as INSERT
C21_Witness ==
    /\ \E r \in BagToSet(requests) :
          r.pc = "rejected" /\ r.raw.operation = <<"s", "e", "l", "e", "c", "t">>
    /\ \E r \in BagToSet(requests) :
          /\ r.pc # "rejected"
          /\ r.raw.operation = <<"i", "n", "s", "e", "r", "t">>
          /\ r.send.issue = "ok"
    /\ \E m \in BagToSet(topic_msgs) :
          DictGet(m.payload, K_operation, JNull) = JStr(INSERT)

(***************************************************************************)
(* Several producer processes.  The counters of main.py 68-73 are module   *)
(* state: every process, a restart of the service or one more instance of  *)
(* it, begins with them at zero.  Instances share the topic and nothing    *)
(* else, so what they publish is what one process after another publishes; *)
(* the variables of the producer describe the process that is looked at,   *)
(* and requests keeps the answered requests of the earlier ones.           *)
(***************************************************************************)
StartInstance ==
    /\ producer_metrics.total_requests >= 1
    /\ \A r \in BagToSet(requests) : r.pc # "waiting"
    /\ publisher' = "None"
    /\ app' = "starting"
    /\ producer_metrics' = [total_requests |-> 0, successful_publishes |-> 0,
                            failed_publishes |-> 0]
    /\ UNCHANGED <<cloud, requests, topic_msgs, batch, wire>>
    /\ UNCHANGED consumer

NextInstances ==
    \/ lifespan_startup
    \/ StartInstance
    \/ \E raw \in RawRequests, t \in Instants, send \in SendChoices :
           /\ BagCardinality(requests) < MaxRequests
           /\ PublishRequest(raw, t, send)
    \/ \E r \in BagToSet(requests) : PublishResume(r)

SpecInstances == InitProducer /\ [][NextInstances]_vars

(***************************************************************************)
(* C22: event_id is unique per publish request: any two envelopes created  *)
(* by distinct requests, of one producer process or of several, carry      *)
(* different event_id values.  No message is on the topic twice and no two *)
(* messages of the topic share their event_id.                             *)
(***************************************************************************)
EventIdOf(m) == DictGet(m.payload, K_event_id, JNull)

C22_EventIdUnique ==
    \A m1 \in BagToSet(topic_msgs) :
        /\ topic_msgs[m1] = 1
        /\ \A m2 \in BagToSet(topic_msgs) :
               m1 # m2 => EventIdOf(m1) # EventIdOf(m2)

(***************************************************************************)
(* C23: for an envelope that passed validation the dispatcher invokes one  *)
(* executor operation, once per delivery, chosen by the operation:         *)
(* insert(table, data) for INSERT, update(table, data, where_clause) for   *)
(* UPDATE, delete(table, where_clause) for DELETE.  Before process_message *)
(* runs nothing is invoked; the statement handed to the database is the    *)
(* one that method builds from the envelope's own fields; process_message  *)
(* returns success exactly when the invoked method returned, and failure   *)
(* when it raised; and the method is never invoked a second time.          *)
(***************************************************************************)
Validated(r) ==
    /\ r.payload.enc = "json"
    /\ r.payload.isdict
    /\ _validate_message(r.payload.env) = "true"

FieldOr(r, f, default) ==
    IF f \in DOMAIN r.payload.env THEN r.payload.env[f] ELSE default

C23_OneExecutorCall ==
    \A r \in Callbacks :
        Validated(r) =>
            LET operation == Upper(r.payload.env["operation"].chars)
                table == r.payload.env["table"]
                data == FieldOr(r, "data", JDict(<<>>))
                where == FieldOr(r, "where_clause", JDict(<<>>))
                expected == CASE operation = INSERT -> insert(table, data)
                              [] operation = UPDATE -> update(table, data, where)
                              [] operation = DELETE -> delete(table, where)
                begun == r.pc = "db_exec" \/ r.result # "none"
            IN /\ Len(r.calls) <= 1 /\ Len(r.stmts) <= 1
               /\ ~begun => r.calls = <<>> /\ r.stmts = <<>> /\ r.db = "none"
               /\ begun =>
                     /\ operation = INSERT => r.calls = <<"insert">>
                     /\ operation = UPDATE => r.calls = <<"update">>
                     /\ operation = DELETE => r.calls = <<"delete">>
                     /\ r.stmts # <<>> => r.stmts = <<expected>>
                     /\ r.pc = "db_exec" => r.stmts # <<>> /\ r.db = "none"
                     /\ r.db = "ok" => r.stmts # <<>>
               /\ r.result = "true" <=> r.db = "ok"
               /\ r.result = "false" <=> r.db = "raised"

\* a validated UPDATE envelope for which update was invoked once, with the
\* statement built from its fields, and returned: process_message returned
\* success
C23_Witness ==
    \E r \in Callbacks :
        /\ Validated(r)
        /\ Upper(r.payload.env["operation"].chars) = UPDATE
        /\ r.calls = <<"update">>
        /\ Len(r.stmts) = 1
        /\ r.db = "ok"
        /\ r.result = "true"

(***************************************************************************)
(* C24: statement building binds each value to its own positional          *)
(* placeholder.  In every statement handed to the database the SET (or     *)
(* column) entries carry the placeholders 1..n in the order of the keys of *)
(* data, the WHERE entries carry n+1..n+m in the order of the keys of      *)
(* where_clause (n = 0 for DELETE, m = 0 for INSERT), no number appears    *)
(* twice, and the bound arguments are the n values of data followed by the *)
(* m values of where_clause, so that the argument at each placeholder is   *)
(* the value the envelope gives for that entry's key.                      *)
(***************************************************************************)
Bound(r, st) ==
    LET data == IF st.verb = "DELETE" THEN JDict(<<>>)
                ELSE FieldOr(r, "data", JDict(<<>>))
        where == IF st.verb = "INSERT" THEN JDict(<<>>)
                 ELSE FieldOr(r, "where_clause", JDict(<<>>))
        n == Len(data.items)
        m == Len(where.items)
    IN /\ Len(st.set) = n /\ Len(st.where) = m /\ Len(st.args) = n + m
       /\ \A i \in 1..n :
             /\ st.set[i] = [k |-> data.items[i].k, ph |-> i]
             /\ st.args[st.set[i].ph] = data.items[i].v
       /\ \A j \in 1..m :
             /\ st.where[j] = [k |-> where.items[j].k, ph |-> n + j]
             /\ st.args[st.where[j].ph] = where.items[j].v
       /\ { st.set[i].ph : i \in 1..n } \cap { st.where[j].ph : j \in 1..m } = {}
       /\ { st.set[i].ph : i \in 1..n } \cup { st.where[j].ph : j \in 1..m }
              = 1..(n + m)

C24_PlaceholdersBound ==
    \A r \in Callbacks : \A i \in DOMAIN r.stmts : Bound(r, r.stmts[i])

\* an UPDATE with one SET entry at placeholder 1 and one WHERE entry at
\* placeholder 2 was handed to the database with two bound values
C24_Witness ==
    \E r \in Callbacks :
        /\ Len(r.stmts) = 1
        /\ r.stmts[1].verb = "UPDATE"
        /\ r.stmts[1].set = <<[k |-> "age", ph |-> 1]>>
        /\ r.stmts[1].where = <<[k |-> "name", ph |-> 2]>>
        /\ r.stmts[1].args = <<JInt(31), JStr(<<"Ana">>)>>

(***************************************************************************)
(* The database client by itself (database_client.py 18-60), with callers  *)
(* that invoke insert, update and delete on it at any time, more of them   *)
(* than the pool has connections.  The three methods have the same shape:  *)
(* build the statement, enter "async with self.pool.acquire() as conn",    *)
(* await conn.execute and leave the block.  acquire gives a free           *)
(* connection or waits for one; leaving the block, by its end, by the      *)
(* exception of a failed statement or by the cancellation of the awaiting  *)
(* task, gives the connection back.                                        *)
(***************************************************************************)
MaxCalls == 11

CallsMade ==
    pool.calls.waiting + pool.calls.executing + pool.calls.returned
        + pool.calls.raised + pool.calls.cancelled

Stage(pl, from, to) ==
    [pl EXCEPT !.calls = [@ EXCEPT ![from] = @ - 1, ![to] = @ + 1]]

\* DatabaseClient.connect (27-37): create_pool returns the pool or raises
connect(ok) ==
    /\ ~pool.created
    /\ pool' = IF ok THEN PoolCreated ELSE pool
    /\ UNCHANGED <<backlog, inflight, streaming_pull_future, is_consuming,
                   sub_metrics, metrics, ledger, service>>
    /\ UNCHANGED producer

\* insert, update or delete is called (39-43, 47-51, 55-58): without a pool
\* self.pool.acquire() raises; with a free connection the call holds it and
\* awaits the statement; with none it waits inside acquire
Call ==
    /\ CallsMade < MaxCalls
    /\ pool' =
          IF ~pool.created
          THEN [pool EXCEPT !.calls.raised = @ + 1]
          ELSE IF pool.checked_out < max_size
          THEN Acquired([pool EXCEPT !.calls.executing = @ + 1])
          ELSE [pool EXCEPT !.calls.waiting = @ + 1]
    /\ UNCHANGED <<backlog, inflight, streaming_pull_future, is_consuming,
                   sub_metrics, metrics, ledger, service>>
    /\ UNCHANGED producer

\* a call that waited inside acquire is given a connection that became free
Grant ==
    /\ pool.calls.waiting > 0
    /\ pool.checked_out < max_size
    /\ pool' = Acquired(Stage(pool, "waiting", "executing"))
    /\ UNCHANGED <<backlog, inflight, streaming_pull_future, is_consuming,
                   sub_metrics, metrics, ledger, service>>
    /\ UNCHANGED producer

\* a call that waits inside acquire is cancelled: it holds no connection
CancelWaiting ==
    /\ pool.calls.waiting > 0
    /\ pool' = Stage(pool, "waiting", "cancelled")
    /\ UNCHANGED <<backlog, inflight, streaming_pull_future, is_consuming,
                   sub_metrics, metrics, ledger, service>>
    /\ UNCHANGED producer

\* conn.execute ends (44, 52, 59): the statement succeeded and the method
\* returns True, the statement failed and the method raises, or the task
\* was cancelled; in each case the block is left
Finish(outcome) ==
    /\ pool.calls.executing > 0
    /\ pool' = Released(Stage(pool, "executing", outcome), 1)
    /\ UNCHANGED <<backlog, inflight, streaming_pull_future, is_consuming,
                   sub_metrics, metrics, ledger, service>>
    /\ UNCHANGED producer

NextPool ==
    \/ \E ok \in BOOLEAN : connect(ok)
    \/ Call
    \/ Grant
    \/ CancelWaiting
    \/ \E outcome \in {"returned", "raised", "cancelled"} : Finish(outcome)

InitPool ==
    /\ ProducerAbsent
    /\ backlog = EmptyBag
    /\ inflight = EmptyBag
    /\ streaming_pull_future = "None"
    /\ is_consuming = FALSE
    /\ sub_metrics = [messages_received |-> 0, messages_acked |-> 0,
                      messages_nacked |-> 0]
    /\ metrics = [messages_received |-> 0, messages_processed |-> 0,
                  messages_failed |-> 0, database_operations_success |-> 0,
                  database_operations_failed |-> 0]
    /\ ledger = [delivered |-> 0, acks |-> 0, nacks |-> 0, busy_at_stop |-> FALSE]
    /\ pool = PoolNone
    /\ service = ServiceIdle

SpecPool == InitPool /\ [][NextPool]_vars

(***************************************************************************)
(* C25: every executor operation gives back the connection it acquired on  *)
(* every exit path.  The connections checked out of the pool are exactly   *)
(* those of the calls that are inside their "async with" block, they are   *)
(* never more than the pool's maximum of 10, and when no call of insert,   *)
(* update or delete is in progress none is checked out.                    *)
(***************************************************************************)
InBlock ==
    pool.calls.executing
        + BagCardinality([r \in { q \in Callbacks : q.pc = "db_exec" }
                            |-> inflight[r]])

C25_ConnectionsReleased ==
    /\ pool.checked_out >= 0
    /\ pool.checked_out <= 10
    /\ pool.checked_out = InBlock
    /\ InBlock = 0 /\ pool.calls.waiting = 0 => pool.checked_out = 0

\* calls have ended in each of the three ways, none is in progress and no
\* connection is checked out
C25_Witness ==
    /\ pool.created
    /\ pool.calls.returned >= 1
    /\ pool.calls.raised >= 1
    /\ pool.calls.cancelled >= 1
    /\ pool.calls.executing = 0
    /\ pool.calls.waiting = 0
    /\ pool.checked_out = 0

(***************************************************************************)
(* C26: when the executor fails while it runs the statement of a validated *)
(* envelope, the message is negatively acknowledged and the consumer keeps *)
(* nothing of it.  The delivery is never acked and leaves the callback     *)
(* nacked; and every step that handles it, from the failure of the         *)
(* statement to the return of the callback, leaves alone the backlog, the  *)
(* stream, the consuming flag, the lifecycle globals, the pool (but for    *)
(* the connection of the failed statement, which goes back) and the other  *)
(* deliveries in flight, and counts no success and no ack.  The counters   *)
(* of received, failed and nacked messages are those that record it.       *)
(***************************************************************************)
FailedExec(r) == Validated(r) /\ r.stmts # <<>> /\ r.db = "raised"

HandlesFailed ==
    \E r \in BagToSet(inflight) \cup BagToSet(inflight') :
        FailedExec(r) /\ CopiesIn(r, inflight) # CopiesIn(r, inflight')

OthersUntouched ==
    \E r \in BagToSet(inflight) :
        \/ inflight' = Take(inflight, r)
        \/ \E q \in BagToSet(inflight') : Take(inflight', q) = Take(inflight, r)

EmptyTable(r) ==
    /\ Has(r, "table")
    /\ \/ r.payload.env["table"] = JNull
       \/ r.payload.env["table"] = JStr(<<>>)

C27_TableNonEmpty ==
    \A r \in Callbacks :
        /\ EmptyTable(r) => r.calls = <<>> /\ r.stmts = <<>>
        /\ \A i \in DOMAIN r.stmts :
               r.stmts[i].table.kind = "str" /\ r.stmts[i].table.chars # <<>>

(***************************************************************************)
(* The lifecycle of the consumer process (main.py 211-254) and the         *)
(* endpoints that report it (286-378).  start_consumer runs from its call  *)
(* to the await of line 225 and from there to its end; stop_consumer,      *)
(* called by main's finally clause or from the signal handler (263), and   *)
(* the endpoints run between the steps of the event loop.  When the        *)
(* program is served by uvicorn alone start_consumer is never called.      *)
(***************************************************************************)
MaxProbes == 3

\* the condition of readiness_check (346-350)
Ready ==
    /\ service.running
    /\ service.subscriber # "None"
    /\ service.processor # "None"

\* root (294)
root == IF service.running THEN "running" ELSE "stopped"

\* health_check (306-326)
health_check ==
    IF service.running /\ service.subscriber # "None"
    THEN "healthy" ELSE "unhealthy"

\* readiness_check (346-369)
readiness_check == IF Ready THEN "ready" ELSE "not_ready"

\* start_consumer 222-225: the client is built and connect is awaited
start_consumer ==
    /\ service.pc = "idle"
    /\ service' = [service EXCEPT !.pc = "connecting"]
    /\ UNCHANGED <<backlog, inflight, streaming_pull_future, is_consuming,
                   sub_metrics, metrics, ledger, pool>>
    /\ UNCHANGED producer

\* the subscriber is constructed and running is set; start_consuming raises
\* and the handler leaves running as it is
start_consumer_resume_KeepRunning(ok) ==
    /\ service.pc = "connecting"
    /\ IF ok
       THEN /\ pool' = PoolCreated
            /\ service' = [service EXCEPT !.pc = "failed", !.processor = "set",
                                          !.subscriber = "set", !.running = TRUE]
       ELSE /\ UNCHANGED pool
            /\ service' = [service EXCEPT !.pc = "failed"]
    /\ UNCHANGED <<backlog, inflight, streaming_pull_future, is_consuming,
                   sub_metrics, metrics, ledger>>
    /\ UNCHANGED producer

\* start_consumer 225-242, from the end of connect.  If connect raised, the
\* handler clears running and raises again.  If it returned, the processor
\* is built and assigned (228); PubSubSubscriber(processor) (231) passes one
\* argument to a constructor that requires three (pubsub_subscriber.py 21)
\* and raises TypeError before subscriber is assigned, so lines 233-237 are
\* not reached, and the handler clears running and raises again (239-242).
start_consumer_resume(ok) ==
    /\ service.pc = "connecting"
    /\ IF ok
       THEN /\ pool' = PoolCreated
            /\ service' = [service EXCEPT !.pc = "failed", !.processor = "set",
                                          !.running = FALSE]
       ELSE /\ UNCHANGED pool
            /\ service' = [service EXCEPT !.pc = "failed", !.running = FALSE]
    /\ UNCHANGED <<backlog, inflight, streaming_pull_future, is_consuming,
                   sub_metrics, metrics, ledger>>
    /\ UNCHANGED producer

\* stop_consumer 244-254: clear running and, if a subscriber was assigned,
\* have it stop consuming (pubsub_subscriber.py 67-71)
stop_consumer ==
    /\ service' = [service EXCEPT !.running = FALSE, !.stopped = TRUE]
    /\ IF service.subscriber # "None" /\ streaming_pull_future # "None"
       THEN /\ streaming_pull_future' = "cancelled"
            /\ is_consuming' = FALSE
            /\ ledger' = [ledger EXCEPT !.busy_at_stop = (Outstanding > 0)]
       ELSE UNCHANGED <<streaming_pull_future, is_consuming, ledger>>
    /\ UNCHANGED <<backlog, inflight, sub_metrics, metrics, pool>>
    /\ UNCHANGED producer

\* a request to one of the endpoints is answered; open notes whether the
\* subscription stream was open at that moment
Probe(endpoint) ==
    /\ Len(service.probes) < MaxProbes
    /\ service' = [service EXCEPT !.probes = Append(@,
           [endpoint |-> endpoint,
            answer |-> CASE endpoint = "/" -> root
                         [] endpoint = "/health" -> health_check
                         [] endpoint = "/ready" -> readiness_check,
            open |-> streaming_pull_future = "active"])]
    /\ UNCHANGED <<backlog, inflight, streaming_pull_future, is_consuming,
                   sub_metrics, metrics, ledger, pool>>
    /\ UNCHANGED producer

NextService ==
    \/ start_consumer
    \/ \E ok \in BOOLEAN : start_consumer_resume(ok)
    \/ stop_consumer
    \/ \E endpoint \in {"/", "/health", "/ready"} : Probe(endpoint)

\* the process after its module was loaded
InitService == InitPool

SpecService == InitService /\ [][NextService]_vars

Count(S) == BagCardinality([r \in S |-> inflight[r]])

\* calls of process_message that have begun and not returned
InProgress == Count({ r \in Callbacks : r.pc = "db_exec" })

NotBegun == Count({ r \in Callbacks : r.pc = "pm_pending" })

Returned(b) == Count({ r \in Callbacks : r.result = b })

Step(now, next) == IF next > now THEN 1 ELSE 0

C30_SubscriberCountersConserved ==
    /\ sub_metrics.messages_acked = ledger.acks
    /\ sub_metrics.messages_nacked = ledger.nacks
    /\ inflight = EmptyBag =>
          sub_metrics.messages_received
              = sub_metrics.messages_acked + sub_metrics.messages_nacked

(***************************************************************************)
(* C31: ack follows durable execution.  A delivery is acked only after the *)
(* statement of its envelope was executed without error: the step that     *)
(* issues an ack takes a delivery whose executor call had already returned *)
(* and whose process_message had returned success, and changes nothing     *)
(* else of it; a delivery whose statement failed, is still being executed  *)
(* or was never run is not acked; and the acks issued never outnumber the  *)
(* statements that succeeded.                                              *)
(***************************************************************************)
Executed(r) ==
    /\ Len(r.stmts) = 1
    /\ r.db = "ok"
    /\ r.result = "true"

C31_AckAfterExecution ==
    [][ /\ \A r \in BagToSet(inflight') : r.decision = "ack" => Executed(r)
        /\ ledger'.acks \in {ledger.acks, ledger.acks + 1}
        /\ ledger'.acks = ledger.acks + 1 =>
              \E r \in BagToSet(inflight) :
                  /\ r.pc = "pm_done"
                  /\ r.decision = "none"
                  /\ Executed(r)
                  /\ \E q \in BagToSet(inflight') :
                        /\ q = [r EXCEPT !.pc = q.pc, !.decision = "ack"]
                        /\ inflight' = Put(Take(inflight, r), q)
        /\ ledger'.acks <= metrics'.database_operations_success
      ]_vars

\* one delivery was acked after its statement had succeeded, while the
\* statement of another failed and that delivery was nacked
C31_Witness ==
    /\ ledger.acks = 1
    /\ \E r \in Callbacks :
          r.decision = "ack" /\ Executed(r) /\ r.pc = "cb_exit"
    /\ \E r \in Callbacks :
          r.decision = "nack" /\ r.stmts # <<>> /\ r.db = "raised"
====
